---- MODULE Spec2Model ----
(***************************************************************************)
(* A model of the resumable GPU driver / CUDA toolkit installer            *)
(* (src/linux/cuda_installer).  The machine's disk (the checkpoint         *)
(* directory, the installed software) outlives a process; everything else  *)
(* belongs to one run of the program and is lost when the run ends.        *)
(***************************************************************************)
EXTENDS Integers, Sequences, FiniteSets, TLC

VARIABLES
    distro,           \* which LinuxInstaller subclass get_installer returns
    gpu,              \* an NVIDIA device is attached to the machine
    flaky,            \* shell commands of this machine may exit non-zero
    markers,          \* checkpoint files present in INSTALLER_DIR
    mode_file,        \* content of INSTALLER_DIR/mode, or NoFile
    driver_installed, \* nvidia-smi is on the PATH
    toolkit_installed,\* CUDA toolkit installed
    kernel_locked,    \* kernel packages held back from updates
    pc,               \* position of the running process; "exit" when it has
                      \* ended, "idle" when none runs
    req,              \* the operation and arguments of the running process
    nested,           \* install_driver was called from _install_cuda
    ret,              \* where the running _add_nvidia_repo call returns to
    raised,           \* the step whose action raised RebootRequired, or "none"
    verified,         \* self._file_download_verified of the running process
    outcome,          \* how the last process ended
    error,            \* the exception that ended it, or "none"
    log,              \* what the running process has logged and done so far
    reboots,          \* reboots triggered so far
    prev,             \* the request of the process before this one, when its
                      \* prerequisites step ended it with a reboot; else NoReq
    last,             \* the request of the process before this one, when it
                      \* ran the driver installer and returned; else NoReq
    cmd,              \* the call of LinuxInstaller.run under way, when run is
                      \* exercised on its own; else NoCmd
    files,            \* the files of the working directory, when
                      \* download_file is exercised on its own; else NoFiles
    fetch,            \* the last download_file call made that way, and what
                      \* it returned; else NoFetch
    bashrc,           \* the lines of /etc/bash.bashrc
    profile,          \* the lines of /etc/profile.d/google_cuda_install.sh,
                      \* or NoFile
    mok,              \* the DKMS signing keys and the _repo_install_driver
                      \* call that handles them, when that is exercised on
                      \* its own; else NoMok
    dnf_conf,         \* /etc/dnf/dnf.conf and the lock_kernel_updates or
                      \* unlock_kernel_updates call at work on it, when
                      \* those are exercised on their own; else NoConf
    build,            \* the image builder at work, when it is exercised on
                      \* its own; else NoBuild
    python            \* the interpreter that runs install_gpu_driver.py,
                      \* when that is exercised on its own; else NoPython

vars == <<distro, gpu, flaky, markers, mode_file,
          driver_installed, toolkit_installed, kernel_locked,
          pc, req, nested, ret, raised, verified, outcome, error, log,
          reboots, prev, last, cmd, files, fetch, bashrc, profile,
          mok, dnf_conf, build, python>>

disk == <<markers, mode_file,
          driver_installed, toolkit_installed, kernel_locked>>

machine == <<distro, gpu, flaky>>

tools == <<cmd, files, fetch>>

environment == <<bashrc, profile>>

apart == <<mok, dnf_conf, build, python>>

NoMok == [state |-> "none"]
NoConf == [state |-> "none"]
NoBuild == [state |-> "none"]
NoPython == [state |-> "none"]

running == <<pc, req, nested, ret, raised, verified, outcome, error, log>>

history == <<reboots, prev, last>>

\* The model stops counting reboots here; the program itself has no limit.
MaxReboots == 3

Distros == {"Debian", "RHEL"}
Modes == {"repo", "binary"}
Branches == {"prod", "nfb", "lts"}
Steps == {"prerequisites", "add_nvidia_repo", "cuda_installation"}
Ops == {"install_driver", "install_cuda", "uninstall_driver",
        "verify_driver", "verify_cuda"}
NoFile == <<"<no file>">>
NoReq == [op |-> "none", mode |-> "repo", branch |-> "prod", ignore_no_gpu |-> FALSE]
NoCmd == [state |-> "none"]
NoFiles == <<>>
NoFetch == [state |-> "none"]

(***************************************************************************)
(* Text.  A Python str is a sequence of characters, so that formatting     *)
(* the mode file and reading it back are two different computations.       *)
(***************************************************************************)
Str ==
    [repo   |-> <<"r", "e", "p", "o">>,
     binary |-> <<"b", "i", "n", "a", "r", "y">>,
     prod   |-> <<"p", "r", "o", "d">>,
     nfb    |-> <<"n", "f", "b">>,
     lts    |-> <<"l", "t", "s">>]

Whitespace == {" ", "\n", "\t"}

RECURSIVE lstrip(_)
lstrip(s) ==
    IF s # <<>> /\ Head(s) \in Whitespace THEN lstrip(Tail(s)) ELSE s

RECURSIVE rstrip(_)
rstrip(s) ==
    IF s # <<>> /\ s[Len(s)] \in Whitespace
    THEN rstrip(SubSeq(s, 1, Len(s) - 1))
    ELSE s

strip(s) == rstrip(lstrip(s))

\* str.split(sep) for a one-character separator: every occurrence splits.
RECURSIVE split(_, _)
split(s, sep) ==
    IF \E i \in 1..Len(s) : s[i] = sep
    THEN LET i == CHOOSE k \in 1..Len(s) :
                      s[k] = sep /\ \A j \in 1..(k - 1) : s[j] # sep
         IN <<SubSeq(s, 1, i - 1)>> \o split(SubSeq(s, i + 1, Len(s)), sep)
    ELSE <<s>>

\* A mode file written without the separating space.
mode_text_unseparated(mode, branch) == Str[mode] \o Str[branch]

\* f"{mode} {branch}"
mode_text(mode, branch) == Str[mode] \o <<" ">> \o Str[branch]

\* The name a text spells, "?" when it spells none of the known ones.
NameOf(chars) ==
    IF \E n \in DOMAIN Str : Str[n] = chars
    THEN CHOOSE n \in DOMAIN Str : Str[n] = chars
    ELSE "?"

(***************************************************************************)
(* config.VERSION_MAP: prod and lts name the same driver and toolkit       *)
(* versions, so they share the installer files.                            *)
(***************************************************************************)
driver_url(branch) == IF branch = "nfb" THEN "driver-590.48.01" ELSE "driver-580.105.08"
\* A toolkit installer published under the URL of the driver installer.
cuda_url_of_driver(branch) == driver_url(branch)

cuda_url(branch) == IF branch = "nfb" THEN "cuda-13.1.0" ELSE "cuda-13.0.2"
samples_url(branch) == IF branch = "nfb" THEN "samples-13.1" ELSE "samples-13.0"
keyring_url == "cuda-keyring"

\* CUDA_BIN_FOLDER and CUDA_LIB_FOLDER of the toolkit of a branch.
cuda_bin_folder(branch) ==
    IF branch = "nfb" THEN "/usr/local/cuda-13.1/bin" ELSE "/usr/local/cuda-13.0/bin"
cuda_lib_folder(branch) ==
    IF branch = "nfb" THEN "/usr/local/cuda-13.1/lib64" ELSE "/usr/local/cuda-13.0/lib64"

(***************************************************************************)
(* Pure parts of the program.                                              *)
(***************************************************************************)

\* /etc/bash.bashrc as the distribution ships it.
SystemBashrc == <<"# System-wide .bashrc file">>

SourceLine == "source /etc/profile.d/google_cuda_install.sh"

\* The model stops writing /etc/bash.bashrc when it holds this many source
\* lines; the program has no limit.
MaxSourceLines == 2

\* How often a line occurs in a file.
occurrences(line, content) == Cardinality({i \in 1..Len(content) : content[i] = line})

\* A post-installation step that leaves a bashrc alone that already
\* sources the profile file.
bashrc_write_once(content) ==
    IF occurrences(SourceLine, content) > 0
    THEN content
    ELSE <<"", "# Enabling NVIDIA CUDA Toolkit", SourceLine>> \o content

\* cuda_postinstallation_actions: the bashrc is read, and written back
\* behind the three new lines.
bashrc_write(content) ==
    <<"", "# Enabling NVIDIA CUDA Toolkit", SourceLine>> \o content

\* cuda_postinstallation_actions: the profile file is opened with "w" and
\* gets a comment and the two exports.
profile_write(branch) ==
    << <<"# Configuring CUDA toolkit.">>,
       <<"export PATH=", cuda_bin_folder(branch)>>,
       <<"export LD_LIBRARY_PATH=", cuda_lib_folder(branch)>> >>

\* A verification that is content with finding the status tool.
verify_driver_tool_only(drv, dev) == drv

\* LinuxInstaller.verify_driver: "which nvidia-smi" finds the tool exactly
\* when a driver is installed, and "nvidia-smi -L" lists a device (exit code
\* 0 and a line with "UUID") exactly when a device is attached.
verify_driver(drv, dev) ==
    LET process == [returncode |-> IF drv THEN 0 ELSE 1]
        process2 == [returncode |-> IF dev THEN 0 ELSE 1, uuid |-> dev]
    IN IF process.returncode # 0
       THEN FALSE
       ELSE process2.returncode = 0 /\ process2.uuid

\* The last statement of assert_correct_mode is `assert <message>`, which
\* raises exactly when the message is the empty string.
assert_message(prev_mode) ==
    <<"Y", "o", "u", " ", "h", "a", "v", "e", " ", "t", "o", " ", "u", "s", "e", " ">>
        \o prev_mode \o <<" ", "i", "n", " ", "t", "h", "i", "s", " ", "s", "y", "s", "t", "e", "m", ".">>

\* A guard that records the latest request instead of the first.
assert_correct_mode_overwriting(mode, branch, mf) ==
    IF mode = "repo" /\ branch = "lts"
    THEN [exc |-> "unsupported", file |-> mf, logged |-> FALSE]
    ELSE [exc |-> "none", file |-> mode_text(mode, branch),
          logged |-> mf # NoFile /\ strip(mf) # mode_text(mode, branch)]

\* LinuxInstaller.assert_correct_mode on a mode file with content mf:
\* the exception raised ("none" when it returns), the mode file afterwards,
\* and whether the "Previous installations using ..." error was logged.
assert_correct_mode(mode, branch, mf) ==
    IF mode = "repo" /\ branch = "lts"
    THEN [exc |-> "unsupported", file |-> mf, logged |-> FALSE]
    ELSE IF mf = NoFile
    THEN [exc |-> "none", file |-> mode_text(mode, branch), logged |-> FALSE]
    ELSE IF strip(mf) = mode_text(mode, branch)
    THEN [exc |-> "none", file |-> mf, logged |-> FALSE]
    ELSE [exc |-> IF Len(assert_message(strip(mf))) = 0 THEN "conflict" ELSE "none",
          file |-> mf, logged |-> TRUE]

\* LinuxInstaller.get_installation_mode: the list read_text().split(" ").
get_installation_mode(mf) ==
    IF mf = NoFile
    THEN [exc |-> "no_data", value |-> <<>>]
    ELSE [exc |-> "none", value |-> split(mf, " ")]

\* A wrapper that never finds its flag file.
checkpoint_exists_never(file_name, ms) == FALSE

\* checkpoint_decorator.wrapper, its test of the flag file.
checkpoint_exists(file_name, ms) == file_name \in ms

\* A wrapper that leaves the step unmarked when its action asks for a reboot.
checkpoint_write_unless_reboot(file_name, reboot_required, ms) ==
    IF reboot_required THEN ms ELSE ms \cup {file_name}

\* A wrapper that marks the step only when its action asks for a reboot.
checkpoint_write_only_on_reboot(file_name, reboot_required, ms) ==
    IF reboot_required THEN ms \cup {file_name} ELSE ms

\* checkpoint_decorator.wrapper, its write of the flag file: after the
\* action returned (reboot_required FALSE) and after it raised
\* RebootRequired (reboot_required TRUE) alike.
checkpoint_write(file_name, reboot_required, ms) == ms \cup {file_name}

\* A fetcher that takes any file for the expected one.
download_file_trusting(url, on_disk, v, cmd_ok, content_ok) ==
    [exc |-> "none",
     file |-> IF on_disk = "absent" THEN (IF content_ok THEN "good" ELSE "bad") ELSE on_disk,
     verified |-> v \cup {url},
     commands |-> <<"which gsutil">> \o
                  (IF on_disk = "absent" THEN <<"download">> ELSE <<>>) \o <<"sha256sum">>]

\* A fetcher that takes a file it finds in place for the expected one.
download_file_found_is_good(url, on_disk, v, cmd_ok, content_ok) ==
    IF on_disk # "absent"
    THEN [exc |-> "none", file |-> on_disk, verified |-> v \cup {url},
          commands |-> IF url \in v THEN <<>> ELSE <<"which gsutil">>]
    ELSE IF ~cmd_ok
    THEN [exc |-> "command", file |-> on_disk, verified |-> v,
          commands |-> <<"which gsutil", "download">>]
    ELSE IF ~content_ok
    THEN [exc |-> "integrity", file |-> "bad", verified |-> v,
          commands |-> <<"which gsutil", "download", "sha256sum">>]
    ELSE [exc |-> "none", file |-> "good", verified |-> v \cup {url},
          commands |-> <<"which gsutil", "download", "sha256sum">>]

\* A fetcher that looks for gsutil before it looks at what it has.
download_file_probing(url, on_disk, v, cmd_ok, content_ok) ==
    IF on_disk # "absent" /\ url \in v
    THEN [exc |-> "none", file |-> on_disk, verified |-> v, commands |-> <<"which gsutil">>]
    ELSE IF ~cmd_ok
    THEN [exc |-> "command", file |-> on_disk, verified |-> v,
          commands |-> <<"which gsutil">>]
    ELSE LET f1 == IF on_disk = "absent"
                   THEN (IF content_ok THEN "good" ELSE "bad")
                   ELSE on_disk
         IN IF f1 # "good"
            THEN [exc |-> "integrity", file |-> f1, verified |-> v,
                  commands |-> <<"which gsutil", "sha256sum">>]
            ELSE [exc |-> "none", file |-> f1, verified |-> v \cup {url},
                  commands |-> <<"which gsutil", "sha256sum">>]

\* LinuxInstaller.download_file for a file that is on_disk ("absent", or
\* there with "good" or "bad" content) when the call starts, with the
\* verified set v.  cmd_ok: the shell commands of the call exit with 0;
\* content_ok: the origin serves the file the expected hash was taken from.
\* commands: the shell commands the call ran, "download" standing for
\* gsutil cp or curl, whichever the probe "which gsutil" selected.
download_file(url, on_disk, v, cmd_ok, content_ok) ==
    IF on_disk # "absent" /\ url \in v
    THEN [exc |-> "none", file |-> on_disk, verified |-> v, commands |-> <<>>]
    ELSE IF ~cmd_ok
    THEN [exc |-> "command", file |-> on_disk, verified |-> v,
          commands |-> <<"which gsutil">> \o
                       (IF on_disk = "absent" THEN <<"download">> ELSE <<"sha256sum">>)]
    ELSE LET f1 == IF on_disk = "absent"
                   THEN (IF content_ok THEN "good" ELSE "bad")
                   ELSE on_disk
             ran == <<"which gsutil">> \o
                    (IF on_disk = "absent" THEN <<"download">> ELSE <<>>) \o
                    <<"sha256sum">>
         IN IF f1 # "good"
            THEN [exc |-> "integrity", file |-> f1, verified |-> v, commands |-> ran]
            ELSE [exc |-> "none", file |-> f1, verified |-> v \cup {url}, commands |-> ran]

\* How often the call ran the download command.
downloads(d) == Cardinality({i \in DOMAIN d.commands : d.commands[i] = "download"})

\* The downloads of a call, as they enter the log of the process.
download_events(url, d, lg) ==
    IF downloads(d) = 0
    THEN {}
    ELSE {<<IF <<"downloaded", url>> \in lg \/ downloads(d) > 1
            THEN "downloaded_twice"
            ELSE "downloaded", url>>}

\* Exit codes a command run on this machine may produce: TRUE is 0.
CmdOutcomes == IF flaky THEN {TRUE, FALSE} ELSE {TRUE}

\* What the origin may serve: on a machine without failures, the right file.
ContentOutcomes == IF flaky THEN {TRUE, FALSE} ELSE {TRUE}

\* The working directory is a cache that earlier runs fill and the operator
\* empties: what a download finds there is up to the environment.
FileStates == IF flaky THEN {"absent", "good", "bad"} ELSE {"absent", "good"}

driver_functional == verify_driver(driver_installed, gpu)

\* The reference programs build where the toolkit is installed.
BuildOutcomes == IF toolkit_installed THEN CmdOutcomes ELSE {FALSE}

\* What a reference program prints: it passes only with a working driver.
Outputs ==
    IF driver_functional
    THEN {{"Result = PASS"}} \cup (IF flaky THEN {{"Result = FAIL"}} ELSE {})
    ELSE {{"Result = FAIL"}}

\* A self-test that takes every output for a pass.
reports_pass_always(stdout) == TRUE

\* "Result = PASS" in <program>.stdout
reports_pass(stdout) == "Result = PASS" \in stdout

\* An installer without an except clause for RebootRequired.
catches_nothing(step) == "none"

\* The operation whose except clause catches the RebootRequired that the
\* wrapper of a step raises: install_driver around _install_prerequisites,
\* install_cuda around _install_cuda.
catches(step) ==
    CASE step = "prerequisites" -> "install_driver"
      [] step = "cuda_installation" -> "install_cuda"
      [] OTHER -> "none"

\* A runner that raises for every non-zero exit code.
raises_always(check, returncode) == returncode # 0

\* A runner that never raises.
raises_never(check, returncode) == FALSE

\* LinuxInstaller.run: if check and proc.returncode: ... raise
\* subprocess.SubprocessError
raises(check, returncode) == check /\ returncode # 0

\* The exit code of a command of the installation, by whether it succeeds.
returncode_of(ok) == IF ok THEN 0 ELSE 1

\* What a command run with check=True that exits non-zero leaves in the log.
nonzero(ok) == IF ok THEN {} ELSE {<<"nonzero", "command">>}

\* A prerequisites action that returns instead of asking for the reboot.
prerequisites_end_returning(d) == "return"

\* _install_prerequisites ends with `raise RebootRequired`, in debian.py
\* as in rhel.py and ubuntu.py.
prerequisites_end(d) == "RebootRequired"

\* A reboot that returns to its caller once the command is given.
reboot_end_returning(step) == "return"

\* LinuxInstaller.reboot ends with sys.exit(0), whichever step asked for
\* the reboot.
reboot_end(step) == "sys.exit"

\* __main__: sys.exit(0) if the verification returned True, else sys.exit(1).
main_exit(result) == IF result THEN "0" ELSE "1"

(***************************************************************************)
(* State after construction: a clean system, no process running.           *)
(***************************************************************************)
Init ==
    /\ distro \in Distros
    /\ gpu \in BOOLEAN
    /\ flaky = TRUE
    /\ markers = {}
    /\ mode_file = NoFile
    /\ driver_installed = FALSE
    /\ toolkit_installed = FALSE
    /\ kernel_locked = FALSE
    /\ pc = "idle"
    /\ req = NoReq
    /\ nested = FALSE
    /\ ret = "none"
    /\ raised = "none"
    /\ verified = {}
    /\ outcome = "none"
    /\ error = "none"
    /\ log = {}
    /\ reboots = 0
    /\ prev = NoReq
    /\ last = NoReq
    /\ bashrc = SystemBashrc
    /\ profile = NoFile
    /\ mok = NoMok
    /\ dnf_conf = NoConf
    /\ build = NoBuild
    /\ python = NoPython
    /\ cmd = NoCmd
    /\ files = NoFiles
    /\ fetch = NoFetch

\* The requests of the command line.  Only the two installation commands
\* take a mode, a branch and --ignore-no-gpu.
Requests ==
    [op : {"install_driver", "install_cuda"}, mode : Modes, branch : Branches,
     ignore_no_gpu : BOOLEAN]
    \cup {[op |-> o, mode |-> "repo", branch |-> "prod", ignore_no_gpu |-> FALSE] :
            o \in {"uninstall_driver", "verify_driver", "verify_cuda"}}

Entry(op) ==
    CASE op = "install_driver" -> "drv_verify"
      [] op = "install_cuda" -> "cuda_enter"
      [] op = "uninstall_driver" -> "un_verify"
      [] op = "verify_driver" -> "vd"
      [] op = "verify_cuda" -> "vc_mode"

\* The request differs from the configuration persisted when it starts.
Conflicts(r, mf) ==
    /\ r.op \in {"install_driver", "install_cuda"}
    /\ mf # NoFile
    /\ strip(mf) # mode_text(r.mode, r.branch)

\* __main__: a new process runs one command.  Nothing of the previous
\* process is left but the disk.
Start(r) ==
    /\ pc' = Entry(r.op)
    /\ req' = r
    /\ nested' = FALSE
    /\ ret' = "none"
    /\ raised' = "none"
    /\ verified' = {}
    /\ outcome' = "running"
    /\ error' = "none"
    /\ log' = IF Conflicts(r, mode_file) THEN {<<"start", "conflict">>} ELSE {}
    /\ UNCHANGED <<machine, apart, tools, environment, disk, reboots>>

\* The operator runs any command with any arguments.
Invoke ==
    /\ pc = "idle"
    /\ \E r \in Requests : Start(r)
    /\ UNCHANGED <<prev, last>>

\* The request of a process that its prerequisites step ended with a reboot.
Interrupted ==
    IF outcome = "rebooted" /\ raised = "prerequisites" THEN req ELSE NoReq

\* The request of an install_driver process that ran the driver installer
\* and returned to the command line without an error message.
Installed ==
    IF /\ req.op = "install_driver"
       /\ outcome = "returned"
       /\ <<"ran", "driver_installer">> \in log
       /\ <<"error", "driver_failed">> \notin log
    THEN req
    ELSE NoReq

\* The ended process is gone: its memory and its output with it.
process_exit ==
    /\ pc = "exit"
    /\ pc' = "idle"
    /\ prev' = Interrupted
    /\ last' = Installed
    /\ req' = NoReq
    /\ raised' = "none"
    /\ outcome' = "none"
    /\ error' = "none"
    /\ log' = {}
    /\ UNCHANGED <<machine, apart, tools, environment, disk, nested, ret, verified, reboots>>

\* The process ends: by returning, by sys.exit(0) after the reboot command,
\* or by an uncaught exception.
End(how, exc) ==
    /\ pc' = "exit"
    /\ outcome' = how
    /\ error' = exc
    /\ nested' = FALSE
    /\ ret' = "none"
    /\ verified' = {}

Goto(label) ==
    /\ pc' = label
    /\ UNCHANGED <<outcome, error, nested, ret, verified>>

Fail(exc) == End("failed", exc)

\* install_driver returns: to _install_cuda when called from there, else
\* to __main__, where the process ends.
install_driver_return ==
    IF nested
    THEN /\ pc' = "cuda_mode"
         /\ nested' = FALSE
         /\ UNCHANGED <<outcome, error, ret, verified>>
    ELSE End("returned", "none")

\* The events assert_correct_mode leaves in the log of the process.
assert_events(r, mf) ==
    (IF r.logged THEN {<<"error", "conflict">>} ELSE {})
        \cup (IF r.file # mf THEN {<<"wrote", "mode">>} ELSE {})

(***************************************************************************)
(* install_driver                                                          *)
(***************************************************************************)

\* if self.verify_driver(): return
install_driver_verify ==
    /\ pc = "drv_verify"
    /\ IF driver_functional THEN install_driver_return ELSE Goto("drv_assert")
    /\ UNCHANGED <<machine, apart, tools, environment, disk, req, raised, log, reboots, prev, last>>

\* self.assert_correct_mode(installation_mode, branch)
install_driver_assert ==
    /\ pc = "drv_assert"
    /\ LET r == assert_correct_mode(req.mode, req.branch, mode_file)
       IN /\ mode_file' = r.file
          /\ log' = log \cup assert_events(r, mode_file)
          /\ IF r.exc # "none" THEN Fail(r.exc) ELSE Goto("prereq_enter")
    /\ UNCHANGED <<machine, apart, tools, environment, markers, driver_installed, toolkit_installed, kernel_locked,
                   req, raised, reboots, prev, last>>

\* The checkpoint wrapper of _install_prerequisites is entered.
install_prerequisites_enter ==
    /\ pc = "prereq_enter"
    /\ IF checkpoint_exists("prerequisites", markers)
       THEN /\ log' = log \cup {<<"skip", "prerequisites">>}
            /\ Goto("drv_mode")
       ELSE /\ log' = log \cup {<<"run", "prerequisites">>}
            /\ Goto("prereq_body")
    /\ UNCHANGED <<machine, apart, tools, environment, disk, req, raised, reboots, prev, last>>

\* _install_prerequisites: the package installation, then raise
\* RebootRequired.  A failing command raises SubprocessError instead.
install_prerequisites ==
    /\ pc = "prereq_body"
    /\ \E ok \in CmdOutcomes :
          /\ log' = log \cup nonzero(ok)
          /\ IF ~raises(TRUE, returncode_of(ok))
             THEN /\ raised' = IF prerequisites_end(distro) = "RebootRequired"
                               THEN "prerequisites" ELSE "none"
                  /\ Goto("prereq_exit")
             ELSE /\ Fail("command")
                  /\ UNCHANGED raised
    /\ UNCHANGED <<machine, apart, tools, environment, markers, mode_file, driver_installed, toolkit_installed, kernel_locked,
                   req, reboots, prev, last>>

\* The wrapper after the action ended: the flag file is written; with
\* reboot_required the exception is raised again, and install_driver
\* catches it; else the wrapper returns to install_driver.
install_prerequisites_exit ==
    /\ pc = "prereq_exit"
    /\ markers' = checkpoint_write("prerequisites", raised = "prerequisites", markers)
    /\ log' = log \cup (IF markers' # markers THEN {<<"wrote", "prerequisites">>} ELSE {})
    /\ IF raised # "prerequisites" THEN Goto("drv_mode")
       ELSE IF catches(raised) # "none" THEN Goto("reboot") ELSE Fail("RebootRequired")
    /\ UNCHANGED <<machine, apart, tools, environment, mode_file, driver_installed, toolkit_installed, kernel_locked,
                   req, raised, reboots, prev, last>>

\* LinuxInstaller.reboot: run("reboot now"), then sys.exit(0).
reboot ==
    /\ pc = "reboot"
    /\ reboots < MaxReboots
    /\ \E ok \in CmdOutcomes :
          IF ok
          THEN /\ reboots' = reboots + 1
               /\ IF reboot_end(raised) = "sys.exit"
                  THEN End("rebooted", "none")
                  ELSE IF raised = "prerequisites"
                  THEN Goto("drv_mode")
                  ELSE End("returned", "none")
          ELSE /\ Fail("command")
               /\ UNCHANGED reboots
    /\ UNCHANGED <<machine, apart, tools, environment, disk, req, raised, log, prev, last>>

\* if installation_mode == "binary": ... else: self._add_nvidia_repo() ...
install_driver_mode ==
    /\ pc = "drv_mode"
    /\ IF req.mode = "binary"
       THEN Goto("bin_download")
       ELSE /\ pc' = "addrepo_enter"
            /\ ret' = "repo_install"
            /\ UNCHANGED <<outcome, error, nested, verified>>
    /\ UNCHANGED <<machine, apart, tools, environment, disk, req, raised, log, reboots, prev, last>>

\* _binary_install_driver: self.download_driver_installer(branch)
binary_install_driver_download ==
    /\ pc = "bin_download"
    /\ \E on_disk \in FileStates, cmd_ok \in CmdOutcomes, content_ok \in ContentOutcomes :
          LET d == download_file(driver_url(req.branch), on_disk, verified, cmd_ok, content_ok)
          IN /\ log' = log \cup download_events(driver_url(req.branch), d, log)
             /\ IF d.exc # "none"
                THEN Fail(d.exc)
                ELSE /\ pc' = "bin_run"
                     /\ verified' = d.verified
                     /\ UNCHANGED <<outcome, error, nested, ret>>
    /\ UNCHANGED <<machine, apart, tools, environment, markers, mode_file, driver_installed, toolkit_installed, kernel_locked,
                   req, raised, reboots, prev, last>>

\* _binary_install_driver: run(f"sh {installer_path} -s", check=True)
binary_install_driver_run ==
    /\ pc = "bin_run"
    /\ \E ok \in CmdOutcomes :
          /\ log' = log \cup {<<"ran", "driver_installer">>} \cup nonzero(ok)
          /\ IF ~raises(TRUE, returncode_of(ok))
             THEN /\ driver_installed' = TRUE
                  /\ Goto("bin_verify")
             ELSE /\ Fail("command")
                  /\ UNCHANGED driver_installed
    /\ UNCHANGED <<machine, apart, tools, environment, markers, mode_file, toolkit_installed, kernel_locked,
                   req, raised, reboots, prev, last>>

\* _binary_install_driver: if self.verify_driver() or ignore_no_gpu:
\* self.lock_kernel_updates(), else log the failure; return either way.
\* The install_driver that _install_cuda calls has ignore_no_gpu False.
binary_install_driver_verify ==
    /\ pc = "bin_verify"
    /\ IF driver_functional \/ (~nested /\ req.ignore_no_gpu)
       THEN \E ok \in CmdOutcomes :
               /\ log' = log \cup nonzero(ok)
               /\ IF ~raises(TRUE, returncode_of(ok))
                  THEN /\ kernel_locked' = TRUE
                       /\ install_driver_return
                  ELSE /\ Fail("command")
                       /\ UNCHANGED kernel_locked
       ELSE /\ log' = log \cup {<<"error", "driver_failed">>}
            /\ install_driver_return
            /\ UNCHANGED kernel_locked
    /\ UNCHANGED <<machine, apart, tools, environment, markers, mode_file, driver_installed, toolkit_installed,
                   req, raised, reboots, prev, last>>

\* The checkpoint wrapper of _add_nvidia_repo is entered.
add_nvidia_repo_enter ==
    /\ pc = "addrepo_enter"
    /\ IF checkpoint_exists("add_nvidia_repo", markers)
       THEN /\ log' = log \cup {<<"skip", "add_nvidia_repo">>}
            /\ pc' = ret
            /\ ret' = "none"
            /\ UNCHANGED <<outcome, error, nested, verified>>
       ELSE /\ log' = log \cup {<<"run", "add_nvidia_repo">>}
            /\ Goto("addrepo_body")
    /\ UNCHANGED <<machine, apart, tools, environment, disk, req, raised, reboots, prev, last>>

\* _add_nvidia_repo.  Debian: download the keyring, dpkg -i, apt-get
\* update.  RHEL and Rocky: dnf config-manager --add-repo, dnf clean all.
add_nvidia_repo ==
    /\ pc = "addrepo_body"
    /\ \E on_disk \in FileStates, cmd_ok \in CmdOutcomes, content_ok \in ContentOutcomes,
          ok \in CmdOutcomes :
          LET d == IF distro = "Debian"
                   THEN download_file(keyring_url, on_disk, verified, cmd_ok, content_ok)
                   ELSE [exc |-> "none", file |-> on_disk, verified |-> verified, commands |-> <<>>]
          IN /\ log' = log \cup download_events(keyring_url, d, log)
                            \cup (IF d.exc = "none" THEN nonzero(ok) ELSE {})
             /\ IF d.exc # "none"
                THEN Fail(d.exc)
                ELSE IF raises(TRUE, returncode_of(ok))
                THEN Fail("command")
                ELSE /\ pc' = "addrepo_exit"
                     /\ verified' = d.verified
                     /\ UNCHANGED <<outcome, error, nested, ret>>
    /\ UNCHANGED <<machine, apart, tools, environment, markers, mode_file, driver_installed, toolkit_installed, kernel_locked,
                   req, raised, reboots, prev, last>>

\* The wrapper after the action returned: the flag file is written and the
\* wrapper returns to its caller.
add_nvidia_repo_exit ==
    /\ pc = "addrepo_exit"
    /\ markers' = checkpoint_write("add_nvidia_repo", raised = "add_nvidia_repo", markers)
    /\ log' = log \cup {<<"done", "add_nvidia_repo">>}
                  \cup (IF markers' # markers THEN {<<"wrote", "add_nvidia_repo">>} ELSE {})
    /\ pc' = ret
    /\ ret' = "none"
    /\ UNCHANGED <<outcome, error, nested, verified>>
    /\ UNCHANGED <<machine, apart, tools, environment, mode_file, driver_installed, toolkit_installed, kernel_locked,
                   req, raised, reboots, prev, last>>

\* _repo_install_driver up to its installation commands.  Debian rejects
\* the prod branch; RHEL and Rocky call self._add_nvidia_repo() once more.
repo_install_driver ==
    /\ pc = "repo_install"
    /\ IF distro = "Debian"
       THEN IF req.branch = "prod" THEN Fail("unsupported") ELSE Goto("repo_run")
       ELSE /\ pc' = "addrepo_enter"
            /\ ret' = "repo_run"
            /\ UNCHANGED <<outcome, error, nested, verified>>
    /\ UNCHANGED <<machine, apart, tools, environment, disk, req, raised, log, reboots, prev, last>>

\* _repo_install_driver: the package manager installs the driver; then
\* install_driver returns.
repo_install_driver_run ==
    /\ pc = "repo_run"
    /\ \E ok \in CmdOutcomes :
          /\ log' = log \cup {<<"ran", "driver_installer">>} \cup nonzero(ok)
          /\ IF ~raises(TRUE, returncode_of(ok))
             THEN /\ driver_installed' = TRUE
                  /\ install_driver_return
             ELSE /\ Fail("command")
                  /\ UNCHANGED driver_installed
    /\ UNCHANGED <<machine, apart, tools, environment, markers, mode_file, toolkit_installed, kernel_locked,
                   req, raised, reboots, prev, last>>

(***************************************************************************)
(* install_cuda                                                            *)
(***************************************************************************)

\* install_cuda calls _install_cuda, whose checkpoint wrapper is entered.
\* With the flag file present the wrapper returns, and so does install_cuda.
install_cuda_enter ==
    /\ pc = "cuda_enter"
    /\ IF checkpoint_exists("cuda_installation", markers)
       THEN /\ log' = log \cup {<<"skip", "cuda_installation">>}
            /\ End("returned", "none")
       ELSE /\ log' = log \cup {<<"run", "cuda_installation">>}
            /\ Goto("cuda_assert")
    /\ UNCHANGED <<machine, apart, tools, environment, disk, req, raised, reboots, prev, last>>

\* _install_cuda: self.assert_correct_mode(installation_mode, branch)
install_cuda_assert ==
    /\ pc = "cuda_assert"
    /\ LET r == assert_correct_mode(req.mode, req.branch, mode_file)
       IN /\ mode_file' = r.file
          /\ log' = log \cup assert_events(r, mode_file)
          /\ IF r.exc # "none" THEN Fail(r.exc) ELSE Goto("cuda_driver")
    /\ UNCHANGED <<machine, apart, tools, environment, markers, driver_installed, toolkit_installed, kernel_locked,
                   req, raised, reboots, prev, last>>

\* _install_cuda: if not (self.verify_driver() or ignore_no_gpu):
\* self.install_driver(installation_mode=..., branch=...)
install_cuda_driver ==
    /\ pc = "cuda_driver"
    /\ IF ~(driver_functional \/ req.ignore_no_gpu)
       THEN /\ pc' = "drv_verify"
            /\ nested' = TRUE
            /\ UNCHANGED <<outcome, error, ret, verified>>
       ELSE Goto("cuda_mode")
    /\ UNCHANGED <<machine, apart, tools, environment, disk, req, raised, log, reboots, prev, last>>

\* _install_cuda: if installation_mode == "binary": ... else:
\* self._add_nvidia_repo(); self._install_cuda_repo(branch)
install_cuda_mode ==
    /\ pc = "cuda_mode"
    /\ IF req.mode = "binary"
       THEN Goto("cudabin_download")
       ELSE /\ pc' = "addrepo_enter"
            /\ ret' = "cudarepo"
            /\ UNCHANGED <<outcome, error, nested, verified>>
    /\ UNCHANGED <<machine, apart, tools, environment, disk, req, raised, log, reboots, prev, last>>

\* _install_cuda_binary: self.download_cuda_toolkit_installer(branch)
install_cuda_binary_download ==
    /\ pc = "cudabin_download"
    /\ \E on_disk \in FileStates, cmd_ok \in CmdOutcomes, content_ok \in ContentOutcomes :
          LET d == download_file(cuda_url(req.branch), on_disk, verified, cmd_ok, content_ok)
          IN /\ log' = log \cup download_events(cuda_url(req.branch), d, log)
             /\ IF d.exc # "none"
                THEN Fail(d.exc)
                ELSE /\ pc' = "cudabin_run"
                     /\ verified' = d.verified
                     /\ UNCHANGED <<outcome, error, nested, ret>>
    /\ UNCHANGED <<machine, apart, tools, environment, markers, mode_file, driver_installed, toolkit_installed, kernel_locked,
                   req, raised, reboots, prev, last>>

\* _install_cuda_binary: run(f"sh {installer_path} --silent --toolkit")
install_cuda_binary_run ==
    /\ pc = "cudabin_run"
    /\ \E ok \in CmdOutcomes :
          /\ log' = log \cup {<<"ran", "toolkit_installer">>} \cup nonzero(ok)
          /\ IF ~raises(TRUE, returncode_of(ok))
             THEN /\ toolkit_installed' = TRUE
                  /\ Goto("cuda_post")
             ELSE /\ Fail("command")
                  /\ UNCHANGED toolkit_installed
    /\ UNCHANGED <<machine, apart, tools, environment, markers, mode_file, driver_installed, kernel_locked,
                   req, raised, reboots, prev, last>>

\* _install_cuda_repo starts with self._add_nvidia_repo(), on Debian as on
\* the dnf systems.
install_cuda_repo ==
    /\ pc = "cudarepo"
    /\ pc' = "addrepo_enter"
    /\ ret' = "cudarepo_run"
    /\ UNCHANGED <<outcome, error, nested, verified>>
    /\ UNCHANGED <<machine, apart, tools, environment, disk, req, raised, log, reboots, prev, last>>

\* _install_cuda_repo: the package manager installs the toolkit.
install_cuda_repo_run ==
    /\ pc = "cudarepo_run"
    /\ \E ok \in CmdOutcomes :
          /\ log' = log \cup {<<"ran", "toolkit_installer">>} \cup nonzero(ok)
          /\ IF ~raises(TRUE, returncode_of(ok))
             THEN /\ toolkit_installed' = TRUE
                  /\ Goto("cuda_post")
             ELSE /\ Fail("command")
                  /\ UNCHANGED toolkit_installed
    /\ UNCHANGED <<machine, apart, tools, environment, markers, mode_file, driver_installed, kernel_locked,
                   req, raised, reboots, prev, last>>

\* _install_cuda: self.cuda_postinstallation_actions(branch), then raise
\* RebootRequired.  The profile file and the bashrc are written; then
\* configure_persistanced_service, where the driver has brought the
\* daemon and its installer, unpacks the installer (check=True) and runs
\* it with check=self.check_gpu_present().
cuda_postinstallation_actions ==
    /\ pc = "cuda_post"
    /\ occurrences(SourceLine, bashrc) < MaxSourceLines
    /\ profile' = profile_write(req.branch)
    /\ bashrc' = bashrc_write(bashrc)
    /\ \E tar_ok \in CmdOutcomes, install_ok \in CmdOutcomes :
          LET unpacked == ~raises(TRUE, returncode_of(tar_ok))
              configured == ~raises(gpu, returncode_of(install_ok))
          IN IF ~driver_installed \/ (unpacked /\ configured)
             THEN /\ raised' = "cuda_installation"
                  /\ Goto("cuda_exit")
                  /\ UNCHANGED log
             ELSE /\ Fail("command")
                  /\ log' = log \cup {<<"nonzero", "command">>}
                  /\ UNCHANGED raised
    /\ UNCHANGED <<machine, apart, tools, disk, req, reboots, prev, last>>

\* The wrapper after _install_cuda raised RebootRequired: the flag file is
\* written, the exception raised again, and install_cuda catches it.
install_cuda_exit ==
    /\ pc = "cuda_exit"
    /\ markers' = checkpoint_write("cuda_installation", raised = "cuda_installation", markers)
    /\ log' = log \cup (IF markers' # markers THEN {<<"wrote", "cuda_installation">>} ELSE {})
    /\ IF catches(raised) # "none" THEN Goto("reboot") ELSE Fail("RebootRequired")
    /\ UNCHANGED <<machine, apart, tools, environment, mode_file, driver_installed, toolkit_installed, kernel_locked,
                   req, raised, reboots, prev, last>>

(***************************************************************************)
(* verify_driver, uninstall_driver, verify_cuda                            *)
(***************************************************************************)

\* __main__: sys.exit(0) if installer.verify_driver(verbose=True) else 1
verify_driver_command ==
    /\ pc = "vd"
    /\ log' = log \cup {<<"exit", main_exit(driver_functional)>>}
    /\ End("returned", "none")
    /\ UNCHANGED <<machine, apart, tools, environment, disk, req, raised, reboots, prev, last>>

\* uninstall_driver: if not self.verify_driver(): return; then
\* mode, branch = self.get_installation_mode()
uninstall_driver_verify ==
    /\ pc = "un_verify"
    /\ IF ~driver_functional
       THEN End("returned", "none")
       ELSE LET m == get_installation_mode(mode_file)
            IN IF m.exc # "none" THEN Fail(m.exc)
               ELSE IF Len(m.value) # 2 THEN Fail("value")
               ELSE IF m.value[1] = Str["repo"] THEN Goto("un_repo")
               ELSE Goto("un_download")
    /\ UNCHANGED <<machine, apart, tools, environment, disk, req, raised, log, reboots, prev, last>>

\* uninstall_driver in repo mode: self._repo_uninstall_driver(); return
uninstall_driver_repo ==
    /\ pc = "un_repo"
    /\ \E ok \in CmdOutcomes :
          IF ok
          THEN /\ driver_installed' = FALSE
               /\ End("returned", "none")
          ELSE /\ Fail("command")
               /\ UNCHANGED driver_installed
    /\ UNCHANGED <<machine, apart, tools, environment, markers, mode_file, toolkit_installed, kernel_locked,
                   req, raised, log, reboots, prev, last>>

\* uninstall_driver in binary mode: self.download_driver_installer(branch)
uninstall_driver_download ==
    /\ pc = "un_download"
    /\ \E on_disk \in FileStates, cmd_ok \in CmdOutcomes, content_ok \in ContentOutcomes :
          LET branch == NameOf(get_installation_mode(mode_file).value[2])
              d == download_file(driver_url(branch), on_disk, verified, cmd_ok, content_ok)
          IN IF branch \notin Branches
             THEN Fail("key") /\ UNCHANGED log
             ELSE /\ log' = log \cup download_events(driver_url(branch), d, log)
                  /\ IF d.exc # "none"
                     THEN Fail(d.exc)
                     ELSE /\ pc' = "un_run"
                          /\ verified' = d.verified
                          /\ UNCHANGED <<outcome, error, nested, ret>>
    /\ UNCHANGED <<machine, apart, tools, environment, markers, mode_file, driver_installed, toolkit_installed, kernel_locked,
                   req, raised, reboots, prev, last>>

\* uninstall_driver in binary mode: run(f"sh {installer_path} -s
\* --uninstall", check=True); self.unlock_kernel_updates()
uninstall_driver_run ==
    /\ pc = "un_run"
    /\ \E ok \in CmdOutcomes, unlock_ok \in CmdOutcomes :
          IF ~ok
          THEN /\ Fail("command")
               /\ UNCHANGED <<driver_installed, kernel_locked>>
          ELSE /\ driver_installed' = FALSE
               /\ IF unlock_ok
                  THEN kernel_locked' = FALSE /\ End("returned", "none")
                  ELSE UNCHANGED kernel_locked /\ Fail("command")
    /\ UNCHANGED <<machine, apart, tools, environment, markers, mode_file, toolkit_installed,
                   req, raised, log, reboots, prev, last>>

\* verify_cuda: branch = self.get_installation_mode()[1]
verify_cuda_mode ==
    /\ pc = "vc_mode"
    /\ LET m == get_installation_mode(mode_file)
       IN IF m.exc # "none" THEN Fail(m.exc)
          ELSE IF Len(m.value) < 2 THEN Fail("index")
          ELSE IF NameOf(m.value[2]) \notin Branches THEN Fail("key")
          ELSE Goto("vc_samples")
    /\ UNCHANGED <<machine, apart, tools, environment, disk, req, raised, log, reboots, prev, last>>

\* verify_cuda in its temporary directory, which starts empty and is
\* removed at the end: download the samples, run("tar -xf ...") and
\* run("cmake .", check=False), whose exit code nobody reads.
verify_cuda_samples ==
    /\ pc = "vc_samples"
    /\ \E cmd_ok \in CmdOutcomes, content_ok \in ContentOutcomes, tar_ok \in CmdOutcomes :
          LET url == samples_url(NameOf(get_installation_mode(mode_file).value[2]))
              d == download_file(url, "absent", verified, cmd_ok, content_ok)
          IN /\ log' = log \cup download_events(url, d, log)
             /\ IF d.exc # "none"
                THEN Fail(d.exc)
                ELSE IF ~tar_ok
                THEN Fail("command")
                ELSE /\ pc' = "vc_device_query"
                     /\ verified' = d.verified
                     /\ UNCHANGED <<outcome, error, nested, ret>>
    /\ UNCHANGED <<machine, apart, tools, environment, disk, req, raised, reboots, prev, last>>

\* One reference program: run("make", check=True), run("./<program>",
\* check=True), then the test of its output.  exc: the exception raised;
\* value: what verify_cuda returns here, "continue" when it goes on.
sample_test(build_ok, run_ok, stdout) ==
    IF ~build_ok THEN [exc |-> "command", value |-> "none", ran |-> FALSE]
    ELSE IF ~run_ok THEN [exc |-> "command", value |-> "none", ran |-> TRUE]
    ELSE IF ~reports_pass(stdout) THEN [exc |-> "none", value |-> "False", ran |-> TRUE]
    ELSE [exc |-> "none", value |-> "continue", ran |-> TRUE]

\* What the self-test of a program left in the log: that it was built and
\* run, what it printed, and that it failed.
sample_events(program, t, stdout) ==
    (IF t.ran /\ t.exc = "none" THEN {<<"ran", program>>} ELSE {})
        \cup (IF t.ran /\ t.exc = "none" /\ "Result = PASS" \in stdout
              THEN {<<"printed_pass", program>>} ELSE {})
        \cup (IF t.value # "continue" THEN {<<"self_test_failed", program>>} ELSE {})

\* verify_cuda: deviceQuery.
verify_cuda_device_query ==
    /\ pc = "vc_device_query"
    /\ \E build_ok \in BuildOutcomes, run_ok \in CmdOutcomes, stdout \in Outputs :
          LET t == sample_test(build_ok, run_ok, stdout)
          IN IF t.exc # "none"
             THEN /\ Fail(t.exc)
                  /\ log' = log \cup sample_events("deviceQuery", t, stdout)
             ELSE IF t.value = "False"
             THEN /\ End("returned", "none")
                  /\ log' = log \cup sample_events("deviceQuery", t, stdout)
                                \cup {<<"exit", main_exit(FALSE)>>}
             ELSE /\ Goto("vc_bandwidth")
                  /\ log' = log \cup sample_events("deviceQuery", t, stdout)
    /\ UNCHANGED <<machine, apart, tools, environment, disk, req, raised, reboots, prev, last>>

\* verify_cuda: bandwidthTest, then return True.
verify_cuda_bandwidth ==
    /\ pc = "vc_bandwidth"
    /\ \E build_ok \in BuildOutcomes, run_ok \in CmdOutcomes, stdout \in Outputs :
          LET t == sample_test(build_ok, run_ok, stdout)
          IN IF t.exc # "none"
             THEN /\ Fail(t.exc)
                  /\ log' = log \cup sample_events("bandwidthTest", t, stdout)
             ELSE /\ End("returned", "none")
                  /\ log' = log \cup sample_events("bandwidthTest", t, stdout)
                                \cup {<<"exit", main_exit(t.value = "continue")>>}
    /\ UNCHANGED <<machine, apart, tools, environment, disk, req, raised, reboots, prev, last>>

(***************************************************************************)
(* The program: commands are invoked one after the other, each running to  *)
(* its end (return, reboot or exception) before the next starts.           *)
(***************************************************************************)
Next ==
    \/ Invoke
    \/ process_exit
    \/ install_driver_verify
    \/ install_driver_assert
    \/ install_prerequisites_enter
    \/ install_prerequisites
    \/ install_prerequisites_exit
    \/ reboot
    \/ install_driver_mode
    \/ binary_install_driver_download
    \/ binary_install_driver_run
    \/ binary_install_driver_verify
    \/ add_nvidia_repo_enter
    \/ add_nvidia_repo
    \/ add_nvidia_repo_exit
    \/ repo_install_driver
    \/ repo_install_driver_run
    \/ install_cuda_enter
    \/ install_cuda_assert
    \/ install_cuda_driver
    \/ install_cuda_mode
    \/ install_cuda_binary_download
    \/ install_cuda_binary_run
    \/ install_cuda_repo
    \/ install_cuda_repo_run
    \/ cuda_postinstallation_actions
    \/ install_cuda_exit
    \/ verify_driver_command
    \/ uninstall_driver_verify
    \/ uninstall_driver_repo
    \/ uninstall_driver_download
    \/ uninstall_driver_run
    \/ verify_cuda_mode
    \/ verify_cuda_samples
    \/ verify_cuda_device_query
    \/ verify_cuda_bandwidth

Spec == Init /\ [][Next]_vars

(***************************************************************************)
(* Installation resumed by a startup script: on a clean machine with a     *)
(* GPU and without failing commands, install_cuda is run, and run again    *)
(* with the same arguments after every reboot it triggers.                 *)
(***************************************************************************)
InitResume ==
    /\ distro \in Distros
    /\ gpu = TRUE
    /\ flaky = FALSE
    /\ markers = {}
    /\ mode_file = NoFile
    /\ driver_installed = FALSE
    /\ toolkit_installed = FALSE
    /\ kernel_locked = FALSE
    /\ pc = "cuda_enter"
    /\ req \in {r \in Requests : r.op = "install_cuda"}
    /\ nested = FALSE
    /\ ret = "none"
    /\ raised = "none"
    /\ verified = {}
    /\ outcome = "running"
    /\ error = "none"
    /\ log = {}
    /\ reboots = 0
    /\ prev = NoReq
    /\ last = NoReq
    /\ bashrc = SystemBashrc
    /\ profile = NoFile
    /\ mok = NoMok
    /\ dnf_conf = NoConf
    /\ build = NoBuild
    /\ python = NoPython
    /\ cmd = NoCmd
    /\ files = NoFiles
    /\ fetch = NoFetch

\* The machine is up again and its startup script runs the same command.
reinvoke ==
    /\ pc = "exit"
    /\ outcome = "rebooted"
    /\ Start(req)
    /\ prev' = Interrupted
    /\ last' = Installed

NextResume ==
    \/ reinvoke
    \/ install_cuda_enter
    \/ install_cuda_assert
    \/ install_cuda_driver
    \/ install_driver_verify
    \/ install_driver_assert
    \/ install_prerequisites_enter
    \/ install_prerequisites
    \/ install_prerequisites_exit
    \/ reboot
    \/ install_driver_mode
    \/ binary_install_driver_download
    \/ binary_install_driver_run
    \/ binary_install_driver_verify
    \/ add_nvidia_repo_enter
    \/ add_nvidia_repo
    \/ add_nvidia_repo_exit
    \/ repo_install_driver
    \/ repo_install_driver_run
    \/ install_cuda_mode
    \/ install_cuda_binary_download
    \/ install_cuda_binary_run
    \/ install_cuda_repo
    \/ install_cuda_repo_run
    \/ cuda_postinstallation_actions
    \/ install_cuda_exit

\* A running process takes its next step, and the startup script runs.
SpecResume == InitResume /\ [][NextResume]_vars /\ WF_vars(NextResume)

(***************************************************************************)
(* LinuxInstaller.run on its own.  A command is the sequence of exit codes *)
(* its successive executions end with; the caller chooses check and        *)
(* retries.  The installer passes no retries, so only this specification   *)
(* runs a command more than once.                                          *)
(***************************************************************************)

\* The largest retries argument tried.
MaxRetries == 2

ExitCodes == {0, 1, 2}

\* With retries r the loop executes the command at most r + 1 times.
Commands == [1..(MaxRetries + 1) -> ExitCodes]

\* A loop that gives up one execution early.
keep_trying_short(try_count, retries) == try_count < retries

\* while try_count <= retries
keep_trying(try_count, retries) == try_count <= retries

\* What the i-th execution of a command writes: a line on stdout, and
\* when it exits non-zero a line on stderr.
stdout_of(i, returncode) == << <<"stdout of execution", i>> >>
stderr_of(i, returncode) == IF returncode # 0 THEN << <<"stderr of execution", i>> >> ELSE <<>>

\* capture_comms: every line read is logged unless silent, stdout lines
\* with logger.info and stderr lines with logger.warning.
capture_comms(silent, out, err) ==
    IF silent THEN <<>>
    ELSE [i \in 1..Len(out) |-> [level |-> "info", text |-> out[i]]]
            \o [i \in 1..Len(err) |-> [level |-> "warning", text |-> err[i]]]

\* The four logger.error calls before the raise.
error_records(out, err) ==
    << [level |-> "error", text |-> <<"Command exited with non-zero code.">>],
       [level |-> "error", text |-> <<"Stdout:">> \o out],
       [level |-> "error", text |-> <<"Stderr:">> \o err],
       [level |-> "error", text |-> <<"--------------------------------">>] >>

NoException == [type |-> "none"]

\* subprocess.SubprocessError("Command exited with non-zero code")
SubprocessError == [type |-> "SubprocessError",
                    message |-> "Command exited with non-zero code"]

InitRun ==
    /\ distro = "Debian"
    /\ gpu = FALSE
    /\ flaky = TRUE
    /\ markers = {}
    /\ mode_file = NoFile
    /\ driver_installed = FALSE
    /\ toolkit_installed = FALSE
    /\ kernel_locked = FALSE
    /\ pc = "idle"
    /\ req = NoReq
    /\ nested = FALSE
    /\ ret = "none"
    /\ raised = "none"
    /\ verified = {}
    /\ outcome = "none"
    /\ error = "none"
    /\ log = {}
    /\ reboots = 0
    /\ prev = NoReq
    /\ last = NoReq
    /\ bashrc = SystemBashrc
    /\ profile = NoFile
    /\ mok = NoMok
    /\ dnf_conf = NoConf
    /\ build = NoBuild
    /\ python = NoPython
    /\ \E command \in Commands, check \in BOOLEAN, silent \in BOOLEAN,
          retries \in 0..MaxRetries :
          cmd = [state |-> "loop", command |-> command, check |-> check,
                 silent |-> silent, retries |-> retries,
                 try_count |-> 0, executions |-> 0,
                 stdout |-> <<>>, stderr |-> <<>>,
                 logged |-> IF ~silent THEN <<[level |-> "info", text |-> <<"Executing">>]>>
                            ELSE <<>>,
                 proc |-> <<>>, result |-> <<>>, exception |-> NoException]
    /\ files = NoFiles
    /\ fetch = NoFetch

\* One turn of the loop: the command is executed from scratch; exit code 0
\* leaves the loop, any other code counts a try.
run_attempt ==
    /\ cmd.state = "loop"
    /\ keep_trying(cmd.try_count, cmd.retries)
    /\ LET returncode == cmd.command[cmd.executions + 1]
           out == stdout_of(cmd.executions + 1, returncode)
           err == stderr_of(cmd.executions + 1, returncode)
       IN cmd' = [cmd EXCEPT
                    !.executions = @ + 1,
                    !.stdout = out,
                    !.stderr = err,
                    !.logged = @ \o capture_comms(cmd.silent, out, err),
                    !.proc = <<returncode>>,
                    !.state = IF returncode = 0 THEN "after" ELSE "loop",
                    !.try_count = IF returncode = 0 THEN @ ELSE @ + 1]
    /\ UNCHANGED <<machine, apart, environment, disk, running, history, files, fetch>>

\* The loop condition fails: the tries are used up.
run_exhausted ==
    /\ cmd.state = "loop"
    /\ ~keep_trying(cmd.try_count, cmd.retries)
    /\ cmd' = [cmd EXCEPT !.state = "after"]
    /\ UNCHANGED <<machine, apart, environment, disk, running, history, files, fetch>>

\* After the loop: raise SubprocessError, or return the CompletedProcess
\* with the exit code of the last execution.  Without an execution proc
\* is None, and reading its returncode is an AttributeError.
run_finish ==
    /\ cmd.state = "after"
    /\ cmd' = IF cmd.proc = <<>>
              THEN [cmd EXCEPT !.state = "crashed"]
              ELSE IF raises(cmd.check, cmd.proc[1])
              THEN [cmd EXCEPT !.state = "raised",
                               !.logged = @ \o error_records(cmd.stdout, cmd.stderr),
                               !.exception = SubprocessError]
              ELSE [cmd EXCEPT !.state = "returned",
                               !.result = <<[returncode |-> cmd.proc[1],
                                             stdout |-> cmd.stdout,
                                             stderr |-> cmd.stderr]>>]
    /\ UNCHANGED <<machine, apart, environment, disk, running, history, files, fetch>>

NextRun ==
    \/ run_attempt
    \/ run_exhausted
    \/ run_finish

SpecRun == InitRun /\ [][NextRun]_vars

(***************************************************************************)
(* LinuxInstaller.download_file on its own: one process calls it for any   *)
(* URL any number of times, and files of the working directory may be      *)
(* removed between the calls.                                              *)
(***************************************************************************)

\* The model stops after this many calls; the program has no limit.
MaxCalls == 3

Urls == {driver_url("prod"), samples_url("prod")}

\* filename = urllib.parse.urlparse(url).path.split("/")[-1]
file_path(url) == <<"./", url>>

InitFetch ==
    /\ distro = "Debian"
    /\ gpu = FALSE
    /\ flaky = TRUE
    /\ markers = {}
    /\ mode_file = NoFile
    /\ driver_installed = FALSE
    /\ toolkit_installed = FALSE
    /\ kernel_locked = FALSE
    /\ pc = "idle"
    /\ req = NoReq
    /\ nested = FALSE
    /\ ret = "none"
    /\ raised = "none"
    /\ verified = {}
    /\ outcome = "none"
    /\ error = "none"
    /\ log = {}
    /\ reboots = 0
    /\ prev = NoReq
    /\ last = NoReq
    /\ bashrc = SystemBashrc
    /\ profile = NoFile
    /\ mok = NoMok
    /\ dnf_conf = NoConf
    /\ build = NoBuild
    /\ python = NoPython
    /\ cmd = NoCmd
    /\ files \in [Urls -> FileStates]
    /\ fetch = [state |-> "new", calls |-> 0, paths |-> [u \in Urls |-> <<>>]]

\* One call of download_file, from its first statement to its return or
\* its exception.  An exception ends the process.
fetch_call ==
    /\ fetch.state \in {"new", "returned"}
    /\ fetch.calls < MaxCalls
    /\ \E url \in Urls, cmd_ok \in CmdOutcomes, content_ok \in ContentOutcomes :
          LET d == download_file(url, files[url], verified, cmd_ok, content_ok)
          IN /\ files' = [files EXCEPT ![url] = d.file]
             /\ verified' = d.verified
             /\ log' = log \cup download_events(url, d, log)
             /\ fetch' = [state |-> IF d.exc = "none" THEN "returned" ELSE "raised",
                          calls |-> fetch.calls + 1,
                          paths |-> IF d.exc = "none"
                                    THEN [fetch.paths EXCEPT ![url] = file_path(url)]
                                    ELSE fetch.paths,
                          url |-> url,
                          exc |-> d.exc,
                          commands |-> d.commands,
                          hit |-> files[url] # "absent" /\ url \in verified,
                          before |-> fetch.paths[url]]
    /\ UNCHANGED <<machine, apart, environment, disk, pc, req, nested, ret, raised, outcome, error, history, cmd>>

\* Somebody removes a file from the working directory.
file_removed ==
    /\ fetch.state \in {"new", "returned"}
    /\ \E url \in Urls :
          /\ files[url] # "absent"
          /\ files' = [files EXCEPT ![url] = "absent"]
    /\ UNCHANGED <<machine, apart, environment, disk, running, history, cmd, fetch>>

NextFetch ==
    \/ fetch_call
    \/ file_removed

SpecFetch == InitFetch /\ [][NextFetch]_vars

(***************************************************************************)
(* The parts below are exercised on their own, on a system where no        *)
(* installer process runs.                                                 *)
(***************************************************************************)
NoProcess ==
    /\ gpu = FALSE
    /\ flaky = TRUE
    /\ markers = {}
    /\ mode_file = NoFile
    /\ driver_installed = FALSE
    /\ toolkit_installed = FALSE
    /\ kernel_locked = FALSE
    /\ pc = "idle"
    /\ req = NoReq
    /\ nested = FALSE
    /\ ret = "none"
    /\ raised = "none"
    /\ verified = {}
    /\ outcome = "none"
    /\ error = "none"
    /\ log = {}
    /\ reboots = 0
    /\ prev = NoReq
    /\ last = NoReq
    /\ cmd = NoCmd
    /\ files = NoFiles
    /\ fetch = NoFetch
    /\ bashrc = SystemBashrc
    /\ profile = NoFile

(***************************************************************************)
(* _repo_install_driver called with secure-boot key paths.  A file is      *)
(* "absent" or named by its content: "system" for the DKMS key the system  *)
(* had, "custom" for the key the caller supplies.                          *)
(***************************************************************************)

\* _backup_dkms_mok_keys: copy mok.pub, then mok.key, to their backup
\* names; the first file missing ends the backup.
backup_dkms_mok_keys(m) ==
    IF m.pub = "absent" THEN m
    ELSE IF m.key = "absent" THEN [m EXCEPT !.pub_back = m.pub]
    ELSE [m EXCEPT !.pub_back = m.pub, !.key_back = m.key]

\* _restore_dkms_mok_keys: move the backup of mok.pub, then that of
\* mok.key, back; the first backup missing ends the restore.
restore_dkms_mok_keys(m) ==
    IF m.pub_back = "absent" THEN m
    ELSE IF m.key_back = "absent"
    THEN [m EXCEPT !.pub = m.pub_back, !.pub_back = "absent"]
    ELSE [m EXCEPT !.pub = m.pub_back, !.pub_back = "absent",
                   !.key = m.key_back, !.key_back = "absent"]

\* place_custom_dkms_signing_keys: the backup, then shutil.copy of the
\* public and of the private key; copying a file that does not exist
\* raises FileNotFoundError.
place_custom_dkms_signing_keys(m) ==
    LET b == backup_dkms_mok_keys(m)
    IN IF ~m.public_exists
       THEN [b EXCEPT !.exc = "FileNotFoundError"]
       ELSE IF ~m.private_exists
       THEN [b EXCEPT !.pub = "custom", !.exc = "FileNotFoundError"]
       ELSE [b EXCEPT !.pub = "custom", !.key = "custom"]

InitKeys ==
    /\ NoProcess
    /\ distro \in Distros
    /\ \E pub \in {"absent", "system"}, key \in {"absent", "system"},
          public_exists \in BOOLEAN, private_exists \in BOOLEAN :
          mok = [state |-> "place",
                 pub |-> pub, key |-> key,
                 pub_back |-> "absent", key_back |-> "absent",
                 public_exists |-> public_exists, private_exists |-> private_exists,
                 pub_before |-> pub, key_before |-> key,
                 exc |-> "none"]
    /\ dnf_conf = NoConf
    /\ build = NoBuild
    /\ python = NoPython

\* Debian places the keys when both files exist; RHEL and Rocky place them
\* whenever both paths are given.  An exception here is outside the try.
repo_install_driver_place ==
    /\ mok.state = "place"
    /\ IF distro = "Debian" /\ ~(mok.public_exists /\ mok.private_exists)
       THEN mok' = [mok EXCEPT !.state = "install"]
       ELSE LET m == place_custom_dkms_signing_keys(mok)
            IN mok' = [m EXCEPT !.state = IF m.exc = "none" THEN "install" ELSE "raised"]
    /\ UNCHANGED <<machine, environment, disk, running, history, tools, dnf_conf, build, python>>

\* The try block: the package manager installs the driver, or fails; the
\* finally clause follows either way.
repo_install_driver_try ==
    /\ mok.state = "install"
    /\ \E ok \in CmdOutcomes :
          mok' = [mok EXCEPT !.state = "shred_pub",
                             !.exc = IF raises(TRUE, returncode_of(ok))
                                     THEN "command" ELSE "none"]
    /\ UNCHANGED <<machine, environment, disk, running, history, tools, dnf_conf, build, python>>

\* remove_custom_dkms_signing_keys: run(f"shred -uz {DKMS_MOK_PUB}");
\* shred exits non-zero for a file that does not exist.
remove_custom_dkms_signing_keys_pub ==
    /\ mok.state = "shred_pub"
    /\ mok' = IF raises(TRUE, returncode_of(mok.pub # "absent"))
              THEN [mok EXCEPT !.state = "raised", !.exc = "command"]
              ELSE [mok EXCEPT !.state = "shred_key", !.pub = "absent"]
    /\ UNCHANGED <<machine, environment, disk, running, history, tools, dnf_conf, build, python>>

\* remove_custom_dkms_signing_keys: run(f"shred -uz {DKMS_MOK_KEY}")
remove_custom_dkms_signing_keys_key ==
    /\ mok.state = "shred_key"
    /\ mok' = IF raises(TRUE, returncode_of(mok.key # "absent"))
              THEN [mok EXCEPT !.state = "raised", !.exc = "command"]
              ELSE [mok EXCEPT !.state = "restore", !.key = "absent"]
    /\ UNCHANGED <<machine, environment, disk, running, history, tools, dnf_conf, build, python>>

\* remove_custom_dkms_signing_keys: self._restore_dkms_mok_keys(); then
\* the exception of the try block, if any, goes on to the caller.
remove_custom_dkms_signing_keys_restore ==
    /\ mok.state = "restore"
    /\ LET m == restore_dkms_mok_keys(mok)
       IN mok' = [m EXCEPT !.state = IF m.exc = "none" THEN "returned" ELSE "raised"]
    /\ UNCHANGED <<machine, environment, disk, running, history, tools, dnf_conf, build, python>>

NextKeys ==
    \/ repo_install_driver_place
    \/ repo_install_driver_try
    \/ remove_custom_dkms_signing_keys_pub
    \/ remove_custom_dkms_signing_keys_key
    \/ remove_custom_dkms_signing_keys_restore

SpecKeys == InitKeys /\ [][NextKeys]_vars

(***************************************************************************)
(* Kernel update locking on dnf-based systems: the exclude option of the   *)
(* main section of /etc/dnf/dnf.conf.  An option value is a sequence of    *)
(* symbols: the text kernel*, a comma, a space, or any other text.         *)
(***************************************************************************)
MaxValueLen == 3

KernelGlob == "kernel*"

Symbols == {KernelGlob, "x", ",", " "}

Values == UNION {[1..n -> Symbols] : n \in 0..MaxValueLen}

\* [s.strip() for s in value.split(",")]
stripped_entries(value) ==
    LET pieces == split(value, ",") IN [i \in 1..Len(pieces) |-> strip(pieces[i])]

\* ", ".join(value)
RECURSIVE join(_)
join(list) ==
    IF list = <<>> THEN <<>>
    ELSE IF Len(list) = 1 THEN list[1]
    ELSE list[1] \o <<",", " ">> \o join(Tail(list))

\* list.remove(x): the first occurrence of x is dropped.
remove(list, x) ==
    LET i == CHOOSE j \in 1..Len(list) :
                 list[j] = x /\ \A k \in 1..(j - 1) : list[k] # x
    IN SubSeq(list, 1, i - 1) \o SubSeq(list, i + 1, Len(list))

\* "kernel*" in value, for a list: some entry is exactly kernel*.
in_list(list) == \E i \in 1..Len(list) : list[i] = <<KernelGlob>>

\* "kernel*" in value, for a string: the text occurs somewhere in the value.
in_value(value) == \E i \in 1..Len(value) : value[i] = KernelGlob

\* The content of a configuration file: whether it has a main section,
\* whether that section has the option exclude, and the option's text.
Conf(main, exclude, value) == [main |-> main, exclude |-> exclude, value |-> value]

NoConfFile == Conf(FALSE, FALSE, <<>>)

\* conf_parser.read(): option values are stripped when the file is parsed.
conf_read(c) == [c EXCEPT !.value = strip(c.value)]

\* open(mode="w") has truncated the file when the write fails; what was
\* written until then is nothing or the sections without the new option.
FailedWrites == {NoConfFile, Conf(TRUE, FALSE, <<>>)}

\* A handler that leaves the file as the failed write left it.
restore_config_skipped(conf, backup) == conf

\* shutil.copyfile("/etc/dnf/dnf.conf_backup", "/etc/dnf/dnf.conf")
restore_config(conf, backup) == backup

InitDnf ==
    /\ NoProcess
    /\ distro = "RHEL"
    /\ mok = NoMok
    /\ build = NoBuild
    /\ python = NoPython
    /\ \E exclude \in BOOLEAN, value \in Values :
          /\ exclude \/ value = <<>>
          /\ dnf_conf = [state |-> "idle", op |-> "none", exc |-> "none",
                         conf |-> Conf(TRUE, exclude, value),
                         backup |-> NoConfFile,
                         before |-> Conf(TRUE, exclude, value),
                         parsed |-> NoConfFile]

DnfFrame == UNCHANGED <<machine, environment, disk, running, history, tools,
                        mok, build, python>>

lock_kernel_updates_read ==
    /\ dnf_conf.state = "idle"
    /\ LET parser == conf_read(dnf_conf.conf)
           begun  == [dnf_conf EXCEPT !.op = "lock", !.exc = "none",
                                      !.before = dnf_conf.conf]
       IN IF ~parser.main
          THEN dnf_conf' = [begun EXCEPT !.state = "raised", !.exc = "KeyError"]
          ELSE IF parser.exclude /\ in_value(parser.value)
          THEN dnf_conf' = [begun EXCEPT !.state = "returned"]
          ELSE LET value == IF parser.exclude
                            THEN Append(stripped_entries(parser.value), <<KernelGlob>>)
                            ELSE <<(<<KernelGlob>>)>>
               IN dnf_conf' = [begun EXCEPT
                                  !.state = "write",
                                  !.parsed = Conf(TRUE, TRUE, join(value)),
                                  !.backup = dnf_conf.conf]
    /\ DnfFrame

lock_kernel_updates_write ==
    /\ dnf_conf.state = "write" /\ dnf_conf.op = "lock"
    /\ \E ok \in BOOLEAN, partial \in FailedWrites :
          IF ok
          THEN dnf_conf' = [dnf_conf EXCEPT !.conf = dnf_conf.parsed,
                                            !.state = "returned"]
          ELSE dnf_conf' = [dnf_conf EXCEPT !.conf = partial, !.exc = "OSError",
                                            !.state = "except"]
    /\ DnfFrame

lock_kernel_updates_except ==
    /\ dnf_conf.state = "except" /\ dnf_conf.op = "lock"
    /\ dnf_conf' = [dnf_conf EXCEPT
                       !.conf = restore_config(dnf_conf.conf, dnf_conf.backup),
                       !.state = "raised"]
    /\ DnfFrame

unlock_kernel_updates_read ==
    /\ dnf_conf.state = "idle"
    /\ LET parser == conf_read(dnf_conf.conf)
           begun  == [dnf_conf EXCEPT !.op = "unlock", !.exc = "none",
                                      !.before = dnf_conf.conf]
       IN IF ~parser.main
          THEN dnf_conf' = [begun EXCEPT !.state = "raised", !.exc = "KeyError"]
          ELSE IF ~parser.exclude
          THEN dnf_conf' = [begun EXCEPT !.state = "returned"]
          ELSE LET value == stripped_entries(parser.value)
               IN IF ~in_list(value)
                  THEN dnf_conf' = [begun EXCEPT !.state = "returned"]
                  ELSE dnf_conf' = [begun EXCEPT
                                       !.state = "write",
                                       !.parsed = Conf(TRUE, TRUE,
                                                       join(remove(value, <<KernelGlob>>))),
                                       !.backup = dnf_conf.conf]
    /\ DnfFrame

unlock_kernel_updates_write ==
    /\ dnf_conf.state = "write" /\ dnf_conf.op = "unlock"
    /\ \E ok \in BOOLEAN, partial \in FailedWrites :
          IF ok
          THEN dnf_conf' = [dnf_conf EXCEPT !.conf = dnf_conf.parsed,
                                            !.state = "returned"]
          ELSE dnf_conf' = [dnf_conf EXCEPT !.conf = partial, !.exc = "OSError",
                                            !.state = "except"]
    /\ DnfFrame

unlock_kernel_updates_except ==
    /\ dnf_conf.state = "except" /\ dnf_conf.op = "unlock"
    /\ dnf_conf' = [dnf_conf EXCEPT
                       !.conf = restore_config(dnf_conf.conf, dnf_conf.backup),
                       !.state = "raised"]
    /\ DnfFrame

\* The caller goes on after the call has returned or has caught its error.
kernel_updates_caller ==
    /\ dnf_conf.state \in {"returned", "raised"}
    /\ dnf_conf.exc # "KeyError"
    /\ dnf_conf' = [dnf_conf EXCEPT !.state = "idle"]
    /\ DnfFrame

NextDnf ==
    \/ lock_kernel_updates_read
    \/ lock_kernel_updates_write
    \/ lock_kernel_updates_except
    \/ unlock_kernel_updates_read
    \/ unlock_kernel_updates_write
    \/ unlock_kernel_updates_except
    \/ kernel_updates_caller

SpecDnf == InitDnf /\ [][NextDnf]_vars

(***************************************************************************)
(* The image builder: Builder.__init__ and Builder.build, with the build   *)
(* VM that runs the installer commands sent to it over ssh.                *)
(***************************************************************************)
MaxSshTries == 2
MaxIterations == 3

BaseImages == {"debian-12", "rhel-9"}

BASE_IMAGES_MAP ==
    [image \in BaseImages |->
        IF image = "debian-12"
        THEN "image-family=debian-12,image-project=debian-cloud"
        ELSE "image-family=rhel-9,image-project=rhel-cloud"]

RebootingNow == "Rebooting now."

\* "Rebooting now." in out: the output of a command is the set of the
\* messages it holds.
announces_reboot(out) == RebootingNow \in out

\* The unsupported combination, as Builder.__init__ tests for it.
unsupported_combination(base_os_image, installation_mode, branch) ==
    base_os_image = "debian-12" /\ installation_mode = "repo" /\ branch = "prod"

\* DebianInstaller._repo_install_driver refuses the prod branch.
repo_install_refused(base_image, installation_mode, branch) ==
    base_image = "debian-12" /\ installation_mode = "repo" /\ branch = "prod"

\* cuda_installer.pyz install_driver --ignore-no-gpu on the build VM: the
\* VM after the command, the messages of its output and whether it failed.
remote_install_driver(b) ==
    IF verify_driver(b.driver, b.vm_gpu)
    THEN [flags |-> b.flags, driver |-> b.driver, out |-> {}, failed |-> FALSE]
    ELSE IF ~checkpoint_exists("prerequisites", b.flags)
    THEN [flags |-> checkpoint_write("prerequisites", TRUE, b.flags),
          driver |-> b.driver, out |-> {RebootingNow}, failed |-> FALSE]
    ELSE IF b.installation_mode = "repo"
            /\ repo_install_refused(b.base_image, b.installation_mode, b.branch)
    THEN [flags |-> b.flags, driver |-> b.driver, out |-> {}, failed |-> TRUE]
    ELSE [flags |-> b.flags, driver |-> TRUE, out |-> {}, failed |-> FALSE]

\* cuda_installer.pyz install_cuda --ignore-no-gpu on the build VM.
remote_install_cuda(b) ==
    IF checkpoint_exists("cuda_installation", b.flags)
    THEN [flags |-> b.flags, out |-> {}]
    ELSE [flags |-> checkpoint_write("cuda_installation", TRUE, b.flags),
          out |-> {RebootingNow}]

InitBuild ==
    /\ NoProcess
    /\ distro \in Distros
    /\ mok = NoMok
    /\ dnf_conf = NoConf
    /\ python = NoPython
    /\ \E installation_mode \in Modes, branch \in Branches,
          driver_only \in BOOLEAN, vm_gpu \in BOOLEAN,
          secure_boot_keys \in {"none", "files", "missing"} :
          build = [state |-> "args",
                   base_image |-> IF distro = "Debian" THEN "debian-12" ELSE "rhel-9",
                   base_os_image |-> "",
                   installation_mode |-> installation_mode,
                   branch |-> branch,
                   driver_only |-> driver_only,
                   secure_boot_keys |-> secure_boot_keys,
                   vm_gpu |-> vm_gpu,
                   keys |-> "none",
                   exit_code |-> -1,
                   vm_created |-> FALSE,
                   image_created |-> FALSE,
                   flags |-> {},
                   driver |-> FALSE,
                   out |-> {},
                   tries |-> 0,
                   driver_runs |-> 0,
                   cuda_runs |-> 0,
                   ended |-> {}]

BuildFrame == UNCHANGED <<machine, environment, disk, running, history, tools,
                          mok, dnf_conf, python>>

\* Builder.__init__ with get_signing_keys.
Builder_init ==
    /\ build.state = "args"
    /\ LET base_os_image == BASE_IMAGES_MAP[build.base_image]
           b == [build EXCEPT !.base_os_image = base_os_image]
       IN IF unsupported_combination(base_os_image, build.installation_mode,
                                     build.branch)
          THEN build' = [b EXCEPT !.state = "exit", !.exit_code = 1]
          ELSE IF build.secure_boot_keys = "missing"
          THEN build' = [b EXCEPT !.state = "exit", !.exit_code = 1]
          ELSE build' = [b EXCEPT
                            !.state = "start_vm",
                            !.keys = IF build.secure_boot_keys = "files"
                                     THEN "given" ELSE "generated"]
    /\ BuildFrame

build_start_vm ==
    /\ build.state = "start_vm"
    /\ build' = [build EXCEPT !.state = "scp_keys", !.vm_created = TRUE]
    /\ BuildFrame

build_scp_keys ==
    /\ build.state = "scp_keys"
    /\ build' = [build EXCEPT !.state = "download"]
    /\ BuildFrame

\* execute_command_over_ssh: the connection was closed, reset, refused or
\* timed out; the command is sent again after a pause.
execute_command_over_ssh_again ==
    /\ build.state \in {"download", "install_driver", "install_cuda", "shred"}
    /\ build.tries < MaxSshTries
    /\ build' = [build EXCEPT !.tries = build.tries + 1]
    /\ BuildFrame

\* The installer is downloaded; out = "Rebooting now." before the first loop.
build_download ==
    /\ build.state = "download"
    /\ build' = [build EXCEPT !.state = "install_driver", !.tries = 0,
                              !.out = {RebootingNow}]
    /\ BuildFrame

\* One iteration of the first loop, with the test of the loop that follows.
build_install_driver ==
    /\ build.state = "install_driver"
    /\ build.driver_runs < MaxIterations
    /\ LET r == remote_install_driver(build)
           b == [build EXCEPT !.flags = r.flags, !.driver = r.driver,
                              !.out = r.out, !.tries = 0,
                              !.driver_runs = build.driver_runs + 1]
       IN IF r.failed
          THEN build' = [b EXCEPT !.state = "raised"]
          ELSE IF announces_reboot(r.out)
          THEN build' = b
          ELSE IF build.driver_only
          THEN build' = [b EXCEPT !.state = "shred",
                                  !.ended = build.ended \cup {"install_driver"}]
          ELSE build' = [b EXCEPT !.state = "install_cuda",
                                  !.out = {RebootingNow},
                                  !.ended = build.ended \cup {"install_driver"}]
    /\ BuildFrame

\* One iteration of the second loop, with the test of the loop that follows.
build_install_cuda ==
    /\ build.state = "install_cuda"
    /\ build.cuda_runs < MaxIterations
    /\ LET r == remote_install_cuda(build)
           b == [build EXCEPT !.flags = r.flags, !.out = r.out, !.tries = 0,
                              !.cuda_runs = build.cuda_runs + 1]
       IN IF announces_reboot(r.out)
          THEN build' = b
          ELSE build' = [b EXCEPT !.state = "shred",
                                  !.ended = build.ended \cup {"install_cuda"}]
    /\ BuildFrame

build_shred ==
    /\ build.state = "shred"
    /\ build' = [build EXCEPT !.state = "shut_down", !.tries = 0]
    /\ BuildFrame

build_shut_down_vm ==
    /\ build.state = "shut_down"
    /\ build' = [build EXCEPT !.state = "build_image"]
    /\ BuildFrame

build_image ==
    /\ build.state = "build_image"
    /\ build' = [build EXCEPT !.state = "done", !.image_created = TRUE]
    /\ BuildFrame

execute_command_over_ssh_returns ==
    \/ build_download
    \/ build_install_driver
    \/ build_install_cuda
    \/ build_shred

NextBuild ==
    \/ Builder_init
    \/ build_start_vm
    \/ build_scp_keys
    \/ execute_command_over_ssh_again
    \/ execute_command_over_ssh_returns
    \/ build_shut_down_vm
    \/ build_image

\* Every remote command succeeds in the end, and the local gcloud commands
\* return.
SpecBuild ==
    /\ InitBuild
    /\ [][NextBuild]_vars
    /\ WF_vars(execute_command_over_ssh_returns)
    /\ WF_vars(Builder_init \/ build_start_vm \/ build_scp_keys
                  \/ build_shut_down_vm \/ build_image)

(***************************************************************************)
(* The legacy script install_gpu_driver.py: main and its check of the      *)
(* version of the Python interpreter.                                      *)
(***************************************************************************)
MaxMajor == 4
MaxMinor == 12

\* sys.version_info.major == 3 and sys.version_info.minor > 6
supported_python_version(major, minor) == major = 3 /\ minor > 6

InitPython ==
    /\ NoProcess
    /\ distro \in Distros
    /\ mok = NoMok
    /\ dnf_conf = NoConf
    /\ build = NoBuild
    /\ \E major \in 2..MaxMajor, minor \in 0..MaxMinor,
          action \in {"verify", "install"}, euid \in {0, 1000} :
          python = [state |-> "main", major |-> major, minor |-> minor,
                    action |-> action, euid |-> euid, exc |-> "none",
                    exit_code |-> -1]

PythonFrame == UNCHANGED <<machine, environment, disk, running, history, tools,
                           mok, dnf_conf, build>>

\* main(): the action of the command line is chosen.
legacy_main ==
    /\ python.state = "main"
    /\ python' = [python EXCEPT !.state = IF python.action = "verify"
                                         THEN "verify_installation"
                                         ELSE "check_python_version"]
    /\ PythonFrame

check_python_version ==
    /\ python.state = "check_python_version"
    /\ IF supported_python_version(python.major, python.minor)
       THEN python' = [python EXCEPT !.state = "returned"]
       ELSE python' = [python EXCEPT !.state = "raised", !.exc = "RuntimeError"]
    /\ PythonFrame

\* main() after the version check: the script needs root privileges.
legacy_main_geteuid ==
    /\ python.state = "returned"
    /\ IF python.euid # 0
       THEN python' = [python EXCEPT !.state = "exit", !.exit_code = 1]
       ELSE python' = [python EXCEPT !.state = "install"]
    /\ PythonFrame

NextPython ==
    \/ legacy_main
    \/ check_python_version
    \/ legacy_main_geteuid

SpecPython == InitPython /\ [][NextPython]_vars

(***************************************************************************)
(* Properties                                                              *)
(***************************************************************************)

\* Where the checkpoint wrapper of a step is entered, and where its action
\* starts.
EnterLabel(s) ==
    CASE s = "prerequisites" -> "prereq_enter"
      [] s = "add_nvidia_repo" -> "addrepo_enter"
      [] s = "cuda_installation" -> "cuda_enter"

BodyLabel(s) ==
    CASE s = "prerequisites" -> "prereq_body"
      [] s = "add_nvidia_repo" -> "addrepo_body"
      [] s = "cuda_installation" -> "cuda_assert"

\* The running process is the one that a reboot at the prerequisites step
\* interrupted, started again with the same arguments.
Resumed == req.op # "none" /\ req = prev

\* C1: once the flag file of a step exists, no step of any process starts
\* the action of that step again; a call of the step with the flag file
\* present logs the skip message and leaves the disk as it is.
C1_MarkedStepNeverReexecuted ==
    [][\A s \in Steps :
          s \in markers =>
            /\ pc' # BodyLabel(s)
            /\ <<"run", s>> \in log' => <<"run", s>> \in log
            /\ pc = EnterLabel(s) => <<"skip", s>> \in log' /\ disk' = disk]_vars

C1_Witness ==
    /\ "prerequisites" \in markers
    /\ <<"skip", "prerequisites">> \in log
    /\ <<"run", "prerequisites">> \notin log
    /\ reboots >= 1

C3_ResumeSkipsPrerequisites ==
    /\ [](Resumed =>
            /\ "prerequisites" \in markers
            /\ <<"run", "prerequisites">> \notin log
            /\ pc \notin {"prereq_body", "prereq_exit"}
            /\ (pc = "cuda_mode" \/ (pc = "exit" /\ outcome # "failed"))
                  => <<"ran", "driver_installer">> \in log)
    /\ [][Resumed /\ pc = "prereq_enter" =>
            pc' = "drv_mode" /\ <<"skip", "prerequisites">> \in log']_vars

C3_Witness ==
    /\ Resumed
    /\ <<"skip", "prerequisites">> \in log
    /\ <<"ran", "driver_installer">> \in log
    /\ driver_installed
    /\ pc = "exit"
    /\ outcome = "returned"

\* The requests that no step of install_cuda rejects on a machine with a
\* GPU and no driver: repo mode has no lts branch, and on Debian the
\* driver of the prod branch is not installed from the repository.
Accepted ==
    /\ ~(req.mode = "repo" /\ req.branch = "lts")
    /\ ~(distro = "Debian" /\ req.mode = "repo" /\ req.branch = "prod"
            /\ ~req.ignore_no_gpu)

Finished ==
    pc = "exit" /\ outcome = "returned" /\ "cuda_installation" \in markers

C5_ConflictIsFatal ==
    <<"error", "conflict">> \in log => pc = "exit" /\ outcome = "failed"

\* C6: once the mode file exists, no step changes its content.
C6_ConfigurationImmutable ==
    [][mode_file # NoFile => mode_file' = mode_file]_vars

C6_Witness ==
    /\ <<"error", "conflict">> \in log
    /\ req.mode = "binary"
    /\ mode_file = mode_text("repo", "prod")

\* C7: every install_driver and install_cuda process started with a
\* request that differs from the persisted configuration ends with a fatal
\* error.
C7_EveryConflictingRequestFails ==
    (pc = "exit" /\ <<"start", "conflict">> \in log) => outcome = "failed"

\* C8: a process that rejects its request as unsupported has written
\* neither the mode file nor a flag file before it does.
C8_RejectedBeforePersistence ==
    (pc = "exit" /\ error = "unsupported") => ~\E e \in log : e[1] = "wrote"

\* C9: the guard called without a mode file, for a pair other than
\* (repo, lts), writes the file and returns; from then on
\* get_installation_mode reads back exactly that mode and branch, and a
\* guard call with the same pair returns without reporting a conflict.
C9_PersistedModeReadBack ==
    /\ [](<<"wrote", "mode">> \in log =>
            /\ get_installation_mode(mode_file) =
                  [exc |-> "none", value |-> <<Str[req.mode], Str[req.branch]>>]
            /\ <<"error", "conflict">> \notin log)
    /\ [][(pc \in {"drv_assert", "cuda_assert"}
             /\ ~(req.mode = "repo" /\ req.branch = "lts")
             /\ (mode_file = NoFile \/ <<"wrote", "mode">> \in log)) =>
            /\ pc' \in {"prereq_enter", "cuda_driver"}
            /\ mode_file' # NoFile
            /\ (mode_file = NoFile => <<"wrote", "mode">> \in log')]_vars

C9_Witness ==
    /\ <<"wrote", "mode">> \in log
    /\ nested
    /\ pc = "prereq_enter"
    /\ NameOf(get_installation_mode(mode_file).value[1]) = "binary"
    /\ NameOf(get_installation_mode(mode_file).value[2]) = "nfb"

\* C10: the wrapper of a step whose action returned writes the flag file
\* before it returns to its caller, so the action of a step that completed
\* in this process is not started again in it.
C10_CompletedStepMarkedBeforeReturn ==
    /\ [](<<"done", "add_nvidia_repo">> \in log => "add_nvidia_repo" \in markers)
    /\ [][pc = "addrepo_exit" =>
            "add_nvidia_repo" \in markers' /\ pc' = ret]_vars
    /\ [][(<<"done", "add_nvidia_repo">> \in log) => pc' # "addrepo_body"]_vars

C10_Witness ==
    /\ <<"done", "add_nvidia_repo">> \in log
    /\ <<"skip", "add_nvidia_repo">> \in log
    /\ distro = "RHEL"
    /\ pc = "repo_run"

\* The running process is an install_driver that follows, with the same
\* arguments, an install_driver that ran the driver installer and returned;
\* the arguments are those of the persisted configuration.
Repeated ==
    /\ req.op = "install_driver"
    /\ req = last
    /\ <<"start", "conflict">> \notin log

\* C11: an install_driver run again with the same arguments after one that
\* installed the driver finds the driver functional and returns: it runs
\* no driver installer, no prerequisites step and no reboot.
C11_SecondInvocationNoOp ==
    Repeated =>
        /\ <<"ran", "driver_installer">> \notin log
        /\ <<"run", "prerequisites">> \notin log
        /\ pc \in {"drv_verify", "exit"}
        /\ pc = "exit" => outcome = "returned"

\* How many times the command fails before it first succeeds, within the
\* executions the largest retry budget allows.
RECURSIVE failures_before_success(_, _)
failures_before_success(command, from) ==
    IF from > Len(command) \/ command[from] = 0
    THEN 0
    ELSE 1 + failures_before_success(command, from + 1)

Min(a, b) == IF a <= b THEN a ELSE b

RunEnded == cmd.state \in {"raised", "returned", "crashed"}

\* C12: with retries r and a command that fails k times before it first
\* succeeds, run executes the command min(k, r) + 1 times, never once more
\* after an exit code 0, and the last exit code is 0 exactly when k <= r.
C12_RetriesUntilSuccess ==
    cmd.state # "none" =>
        LET k == failures_before_success(cmd.command, 1)
            r == cmd.retries
        IN /\ cmd.executions <= Min(k, r) + 1
           /\ RunEnded =>
                /\ cmd.executions = Min(k, r) + 1
                /\ cmd.proc[1] = 0 <=> k <= r
                /\ \A i \in 1..(cmd.executions - 1) : cmd.command[i] # 0

C12_Witness ==
    /\ cmd.state = "returned"
    /\ cmd.retries = 2
    /\ failures_before_success(cmd.command, 1) = 2
    /\ cmd.executions = 3
    /\ cmd.result[1].returncode = 0

\* C13: when the retries are used up with a non-zero exit code, run raises
\* with check true, and with check false returns a result carrying the
\* exit code of the last execution; with exit code 0 it returns for both
\* values of check.
C13_CheckDecidesRaise ==
    (cmd.state # "none" /\ RunEnded) =>
        LET code == cmd.command[cmd.executions]
        IN /\ (code # 0 /\ cmd.check) => cmd.state = "raised"
           /\ (code # 0 /\ ~cmd.check) =>
                 cmd.state = "returned" /\ cmd.result[1].returncode = code
           /\ code = 0 => cmd.state = "returned" /\ cmd.result[1].returncode = 0

C13_Witness ==
    /\ cmd.state = "returned"
    /\ ~cmd.check
    /\ cmd.retries = 1
    /\ cmd.executions = 2
    /\ cmd.command[1] = 1
    /\ cmd.result[1].returncode = 2

\* C14: a download_file call whose file, downloaded or found in place,
\* does not have the expected hash raises the integrity error, leaves the
\* verified set as it was, and has run the download command at most once
\* and nothing after sha256sum.
C14_HashMismatchRaises ==
    [][(fetch'.calls # fetch.calls
          /\ files'[fetch'.url] = "bad"
          /\ fetch'.exc # "command") =>
            /\ fetch'.state = "raised"
            /\ fetch'.exc = "integrity"
            /\ verified' = verified
            /\ downloads(fetch') <= 1
            /\ fetch'.commands[Len(fetch'.commands)] = "sha256sum"]_vars

C14_Witness ==
    /\ fetch.state = "raised"
    /\ fetch.exc = "integrity"
    /\ fetch.commands = <<"which gsutil", "download", "sha256sum">>
    /\ files[fetch.url] = "bad"
    /\ fetch.url \notin verified

\* C15: a download_file call for a URL that an earlier call of the process
\* verified, the file still in place, runs no command, changes neither the
\* files nor the verified set, and returns the path the earlier call
\* returned.
C15_SecondCallSideEffectFree ==
    [][(fetch'.calls # fetch.calls
          /\ fetch'.url \in verified
          /\ files[fetch'.url] # "absent") =>
            /\ fetch'.state = "returned"
            /\ fetch'.commands = <<>>
            /\ files' = files
            /\ verified' = verified
            /\ log' = log
            /\ fetch'.before # <<>>
            /\ fetch'.paths[fetch'.url] = fetch'.before]_vars

C15_Witness ==
    /\ fetch.state = "returned"
    /\ fetch.calls = 2
    /\ fetch.hit
    /\ fetch.commands = <<>>
    /\ fetch.url \in verified

exit_code ==
    IF outcome = "failed" THEN 1
    ELSE IF <<"exit", "1">> \in log THEN 1
    ELSE 0

\* C17: no process ends with RebootRequired as its uncaught exception:
\* the wrapper of a step that raised it hands it to the operation, which
\* runs the reboot command; the process then ends with exit code 0, or
\* with the error of a reboot command that failed.
C17_RebootSignalNeverEscapes ==
    /\ [](error # "RebootRequired")
    /\ [](raised # "none" => pc \in {"prereq_exit", "cuda_exit", "reboot", "exit"})
    /\ []((pc = "exit" /\ raised # "none") =>
            \/ outcome = "rebooted" /\ exit_code = 0
            \/ outcome = "failed" /\ error = "command")
    /\ []((pc = "exit" /\ outcome = "rebooted") => raised # "none")

C17_Witness ==
    /\ pc = "exit"
    /\ outcome = "rebooted"
    /\ raised = "cuda_installation"
    /\ exit_code = 0

SelfTests == {"deviceQuery", "bandwidthTest"}

\* C18: a verify_cuda process ends with exit code 0 exactly when both
\* reference programs were built and run and printed "Result = PASS", and
\* with exit code 1 otherwise.
C18_VerifyCudaExitCode ==
    (pc = "exit" /\ req.op = "verify_cuda") =>
        /\ exit_code \in {0, 1}
        /\ exit_code = 0 <=>
              \A program \in SelfTests :
                 <<"ran", program>> \in log /\ <<"printed_pass", program>> \in log

C18_Witness ==
    /\ pc = "exit"
    /\ req.op = "verify_cuda"
    /\ exit_code = 0
    /\ <<"printed_pass", "deviceQuery">> \in log
    /\ <<"printed_pass", "bandwidthTest">> \in log

\* C19: a verify_cuda process in which a self-test failed ends by
\* returning False to __main__, which exits with code 1; it does not end
\* with an uncaught exception.
C19_FailedSelfTestIsNoCrash ==
    (pc = "exit" /\ req.op = "verify_cuda"
        /\ \E program \in SelfTests : <<"self_test_failed", program>> \in log) =>
            outcome = "returned" /\ <<"exit", "1">> \in log

\* C20: in the installation install_cuda(ignore_no_gpu=True, repo, prod)
\* of a fresh system, the toolkit installation command is run only after
\* the prerequisites step and its reboot, and with the driver installed.
C20_ToolkitAfterPrerequisites ==
    (req.mode = "repo" /\ req.branch = "prod" /\ req.ignore_no_gpu
        /\ <<"ran", "toolkit_installer">> \in log) =>
            /\ "prerequisites" \in markers
            /\ reboots >= 1
            /\ driver_installed

\* C21: when install_cuda is invoked without ignore_no_gpu, the toolkit
\* installation command is run only with a functional driver, and the
\* cuda_installation marker is written only with a functional driver.
C21_ToolkitOnlyWithFunctionalDriver ==
    (req.op = "install_cuda" /\ ~req.ignore_no_gpu) =>
        /\ <<"ran", "toolkit_installer">> \in log => driver_functional
        /\ <<"wrote", "cuda_installation">> \in log => driver_functional

\* C22: when install_driver has run the driver installer in the mode and
\* branch the system is configured for, and returns with the driver
\* functional or with ignore_no_gpu set, the kernel packages are locked,
\* in repo mode as in binary mode.
C22_KernelLockedAfterInstallation ==
    (pc = "exit" /\ req.op = "install_driver" /\ outcome = "returned"
        /\ <<"ran", "driver_installer">> \in log
        /\ <<"error", "conflict">> \notin log
        /\ (driver_functional \/ req.ignore_no_gpu)) =>
            kernel_locked

\* C23: when uninstall_driver has found a functional driver, removed it
\* and returns, the kernel packages are unlocked, after the package
\* removal of repo mode as after the installer's --uninstall of binary
\* mode; and without a functional driver it returns at once and changes
\* nothing on the disk.
C23_KernelUnlockedAfterRemoval ==
    [][/\ (req.op = "uninstall_driver" /\ driver_installed /\ ~driver_installed'
             /\ outcome' = "returned") => ~kernel_locked'
       /\ (pc = "un_verify" /\ ~driver_functional) =>
             (pc' = "exit" /\ outcome' = "returned" /\ disk' = disk)]_vars

Unfinished == {s \in Steps : <<"run", s>> \in log /\ <<"wrote", s>> \notin log}

\* C25: when a command of the installation that is run with check=True
\* exits non-zero, the process ends there with the SubprocessError: the
\* failing step changes nothing on the disk, no later step is taken, and
\* no step whose action was under way has its marker, so that the next
\* invocation finds the marker absent and runs the action again.
C25_FailedCommandStopsStep ==
    /\ [](<<"nonzero", "command">> \in log =>
            /\ pc = "exit"
            /\ outcome = "failed"
            /\ error = "command"
            /\ \A s \in Unfinished : ~checkpoint_exists(s, markers))
    /\ [][(<<"nonzero", "command">> \in log' /\ <<"nonzero", "command">> \notin log) =>
             (disk' = disk /\ pc' = "exit")]_vars

C25_Witness ==
    /\ <<"nonzero", "command">> \in log
    /\ <<"ran", "toolkit_installer">> \in log
    /\ <<"wrote", "add_nvidia_repo">> \in log
    /\ Unfinished = {"cuda_installation"}
    /\ ~toolkit_installed
    /\ pc = "exit"

\* C26: a process that runs the prerequisites action runs no command of
\* the driver installation (repository registration, package or binary
\* installer, their downloads) and does not change the installed driver:
\* from the action it goes to the reboot and ends there, unless a command
\* of the action or the reboot command fails and ends it before.
C26_PrerequisitesRunInstallsNoDriver ==
    /\ [](<<"run", "prerequisites">> \in log =>
            /\ <<"run", "add_nvidia_repo">> \notin log
            /\ <<"ran", "driver_installer">> \notin log
            /\ <<"ran", "toolkit_installer">> \notin log
            /\ \A branch \in Branches : <<"downloaded", driver_url(branch)>> \notin log
            /\ pc \in {"prereq_body", "prereq_exit", "reboot", "exit"}
            /\ pc = "exit" =>
                  \/ outcome = "rebooted"
                  \/ outcome = "failed" /\ error = "command")
    /\ [][(<<"run", "prerequisites">> \in log) => driver_installed' = driver_installed]_vars

C26_Witness ==
    /\ pc = "exit"
    /\ <<"run", "prerequisites">> \in log
    /\ <<"wrote", "prerequisites">> \in log
    /\ outcome = "rebooted"
    /\ req.op = "install_cuda"
    /\ ~driver_installed

\* C27: the error that the runner raises carries the stdout and the
\* stderr captured from the failed command.
C27_ErrorCarriesOutput ==
    cmd.state = "raised" =>
        /\ "stdout" \in DOMAIN cmd.exception
        /\ "stderr" \in DOMAIN cmd.exception
        /\ cmd.exception.stdout = cmd.stdout
        /\ cmd.exception.stderr = cmd.stderr

\* C28: with silent set the runner emits no log record, however the
\* command ends, and it executes the command and captures its exit code
\* and output as it does without silent.
C28_SilentLogsNothing ==
    (cmd.state \in {"returned", "raised"} /\ cmd.silent) =>
        /\ Len(cmd.logged) = 0
        /\ cmd.executions >= 1
        /\ cmd.stdout = stdout_of(cmd.executions, cmd.proc[1])
        /\ cmd.stderr = stderr_of(cmd.executions, cmd.proc[1])
        /\ cmd.proc[1] = cmd.command[cmd.executions]

\* C29: a download_file call returns a path only when the file there has
\* the expected hash and was hashed in this process: by this call, with
\* sha256sum as its last command, or by an earlier call that returned the
\* path, the URL being in the verified set since.  A file found in place
\* is not downloaded again; the first call of a process hashes it all the
\* same.
C29_ReturnedPathWasHashed ==
    /\ [](\A url \in verified : fetch.paths[url] = file_path(url))
    /\ [][(fetch'.calls # fetch.calls /\ fetch'.state = "returned") =>
             /\ files'[fetch'.url] = "good"
             /\ fetch'.url \in verified'
             /\ fetch'.paths[fetch'.url] = file_path(fetch'.url)
             /\ fetch'.url \notin verified =>
                   /\ Len(fetch'.commands) > 0
                   /\ fetch'.commands[Len(fetch'.commands)] = "sha256sum"
             /\ files[fetch'.url] # "absent" =>
                   /\ downloads(fetch') = 0
                   /\ files' = files
             /\ (files[fetch'.url] # "absent" /\ fetch.calls = 0) =>
                   fetch'.commands = <<"which gsutil", "sha256sum">>]_vars

C29_Witness ==
    /\ fetch.state = "returned"
    /\ fetch.calls = 1
    /\ fetch.commands = <<"which gsutil", "sha256sum">>
    /\ files[fetch.url] = "good"
    /\ fetch.url \in verified
    /\ \E url \in Urls : files[url] = "bad"

\* C30: after any sequence of install_cuda runs, failed and repeated ones
\* included, the bashrc holds the line that sources the profile file at
\* most once, exactly once when the post-installation actions have run,
\* and the profile file is what a single run writes.  Stated for the
\* runs of the mode and branch the system is configured for.
C30_PostInstallWritesIdempotent ==
    (req.op = "install_cuda" /\ mode_file = mode_text(req.mode, req.branch)) =>
        /\ occurrences(SourceLine, bashrc) <= 1
        /\ profile # NoFile =>
              /\ occurrences(SourceLine, bashrc) = 1
              /\ \E branch \in Branches : profile = profile_write(branch)

\* C31: when install_driver has run the installer, the driver is still
\* not functional and ignore_no_gpu is not set, the process ends with a
\* non-zero exit code, and install_driver has not locked the kernel
\* packages.
C31_FailedInstallationExitsNonZero ==
    /\ []((pc = "exit" /\ req.op = "install_driver"
             /\ <<"ran", "driver_installer">> \in log
             /\ <<"nonzero", "command">> \notin log
             /\ <<"error", "conflict">> \notin log
             /\ ~driver_functional /\ ~req.ignore_no_gpu) =>
                exit_code # 0)
    /\ [][(req.op = "install_driver" /\ ~driver_functional' /\ ~req.ignore_no_gpu) =>
             (kernel_locked' = kernel_locked)]_vars

\* C32: an install_cuda process whose nested install_driver runs the
\* prerequisites action runs no command of the toolkit installation and
\* does not write the cuda_installation marker: when it ends with a reboot,
\* it is the reboot of the prerequisites step.  The invocation that
\* follows that reboot with the same arguments therefore finds the marker
\* absent and enters the action of the cuda_installation step.
C32_NestedRebootLeavesToolkitForLater ==
    /\ []((req.op = "install_cuda" /\ <<"run", "prerequisites">> \in log) =>
            /\ <<"ran", "toolkit_installer">> \notin log
            /\ \A branch \in Branches : <<"downloaded", cuda_url(branch)>> \notin log
            /\ <<"wrote", "cuda_installation">> \notin log
            /\ ~checkpoint_exists("cuda_installation", markers)
            /\ pc \in {"prereq_body", "prereq_exit", "reboot", "exit"}
            /\ (pc = "exit" /\ outcome = "rebooted") => raised = "prerequisites")
    /\ [][(pc = "cuda_enter" /\ req.op = "install_cuda" /\ Resumed) =>
             (pc' = "cuda_assert" /\ <<"run", "cuda_installation">> \in log')]_vars

C32_Witness ==
    /\ req.op = "install_cuda"
    /\ Resumed
    /\ <<"ran", "toolkit_installer">> \in log
    /\ <<"skip", "prerequisites">> \in log
    /\ toolkit_installed
    /\ pc = "cuda_post"

\* C33: when a repo-mode driver installation called with secure-boot key
\* paths ends, by returning or by an exception, the DKMS key locations do
\* not hold the supplied keys, and they hold what they held before the
\* call.
C33_KeysRestored ==
    mok.state \in {"returned", "raised"} =>
        /\ mok.pub # "custom" /\ mok.key # "custom"
        /\ mok.pub = mok.pub_before
        /\ mok.key = mok.key_before

\* C34: when lock_kernel_updates has returned normally, the exclude option
\* of the main section holds the entry kernel* among its comma-separated
\* entries, which is where unlock_kernel_updates looks for it.
C34_LockLeavesKernelEntry ==
    (dnf_conf.state = "returned" /\ dnf_conf.op = "lock") =>
        /\ dnf_conf.conf.exclude
        /\ in_list(stripped_entries(conf_read(dnf_conf.conf).value))

\* C35: when the write of dnf.conf has failed in lock_kernel_updates or in
\* unlock_kernel_updates, the call ends by raising the error of the write
\* with the file, and so the kernel lock, as they were before the call.
C35_FailedWriteRestoresConfig ==
    /\ [](dnf_conf.state = "raised" =>
              /\ dnf_conf.exc = "OSError"
              /\ dnf_conf.conf = dnf_conf.before
              /\ in_value(conf_read(dnf_conf.conf).value)
                     = in_value(conf_read(dnf_conf.before).value))
    /\ [][(dnf_conf.state = "except") =>
              (dnf_conf'.state = "raised" /\ dnf_conf'.exc = dnf_conf.exc)]_vars

C35_Witness ==
    /\ dnf_conf.state = "raised"
    /\ dnf_conf.op = "unlock"
    /\ dnf_conf.exc = "OSError"
    /\ dnf_conf.before.value = <<"x", ",", KernelGlob>>
    /\ dnf_conf.conf = dnf_conf.before

\* C36: each of the two loops of the image builder ends after at most two
\* runs of its command, the last of which announces no reboot, unless a
\* command fails; the disk image is created only after the install_driver
\* loop and, when the toolkit is to be installed, the install_cuda loop
\* have ended.
C36_BuildLoopsTerminate ==
    /\ [](build.state # "none" =>
              /\ build.driver_runs <= 2 /\ build.cuda_runs <= 2
              /\ build.image_created =>
                     /\ "install_driver" \in build.ended
                     /\ build.driver_only \/ "install_cuda" \in build.ended
                     /\ ~announces_reboot(build.out))
    /\ (build.state = "install_driver") ~>
           ("install_driver" \in build.ended \/ build.state = "raised")
    /\ (build.state = "install_cuda") ~> ("install_cuda" \in build.ended)

C36_Witness ==
    /\ build.state = "done"
    /\ build.image_created
    /\ build.driver_runs = 2
    /\ build.cuda_runs = 2
    /\ build.ended = {"install_driver", "install_cuda"}

\* C37: a Builder constructed for base image debian-12, mode repo and
\* branch prod exits with code 1, with no signing key generated and no
\* build VM created.
C37_BuilderRejectsDebianRepoProd ==
    (/\ build.state \notin {"none", "args"}
     /\ build.base_image = "debian-12"
     /\ build.installation_mode = "repo"
     /\ build.branch = "prod") =>
        /\ build.state = "exit"
        /\ build.exit_code = 1
        /\ build.keys = "none"
        /\ ~build.vm_created

\* C38: check_python_version returns normally for every version 3.y with
\* y >= 6 and raises the unsupported-version error for every other version.
C38_Python36OrNewer ==
    /\ (python.state \in {"returned", "install", "exit"}) =>
           (python.major = 3 /\ python.minor >= 6)
    /\ (python.state = "raised") =>
           ~(python.major = 3 /\ python.minor >= 6)

====
